---- MODULE Spec2Model ----
(***************************************************************************)
(* Martingale ledger, target evaluator and session runner of the trading   *)
(* bot, as implemented by the simulators of the repository:                *)
(*   CST    CompleteSystemTester   (test_complete_system_verification.py)  *)
(*   MT     MockTradingBot         (test_martingale_targets.py)            *)
(*   FIXED  FixedTradingBot        (test_fix_verification.py)              *)
(*   SIMPLE MockTradingBot         (test_simple_automatic_mode.py)         *)
(* Further specifications share the variables:                             *)
(*   ClockSpec  the session clock (get_next_schedule, routes.py)           *)
(*   OrchSpec   the bot thread: trading loop, target pause, start, stop    *)
(*              (fix_automatic_pause_system.py, routes.py)                 *)
(*   RegSpec    the registry of bot instances (start_bot, stop_bot)        *)
(*              and the configuration a running bot works with (save_config)*)
(*   ConnSpec   the broker connection tracker and the balance cache of     *)
(*              the dashboard (routes.py)                                  *)
(*   RunnerSpec the Runner loop with its failures, forced trades and       *)
(*              status queries                                             *)
(*   OrchLiveSpec  OrchSpec with the bot thread as a live thread           *)
(*   LimiterSpec   the request limiter (rate_limiter.py)                   *)
(*   PauseSpec     the pause on a target (test_pause_system_fix.py)        *)
(*   SessionSpec   the session check with an end time                      *)
(*                 (test_simple_automatic_mode.py)                         *)
(*                                                                         *)
(* Money is an integer number of 1/10000 dollar (Scale units per dollar),  *)
(* so that a stake rounded to cents and its 85% payout are both exact.     *)
(* Percentages (take_profit, stop_loss) are in tenths of a percent and     *)
(* the martingale multiplier is in tenths (22 is 2.2).  Python floats are  *)
(* modelled by exact decimal arithmetic; round(x, 2) is the nearest cent.   *)
(***************************************************************************)
EXTENDS Integers, Sequences, FiniteSets, TLC

VARIABLES
    bot,                \* which simulator class is instantiated
    config,             \* self.config, fixed at construction
    initial_balance,    \* self.initial_balance
    current_balance,    \* self.current_balance
    session_profit,     \* self.session_profit
    session_trades,     \* self.session_trades
    martingale_level,   \* self.martingale_level
    consecutive_losses, \* self.consecutive_losses
    result,             \* value returned by the last simulate_trade_result
    should_continue,    \* value returned by the last _should_continue_trading
    event,              \* target event emitted by the last call, or "none"
    evalLevel,          \* martingale level at which the last call compared targets,
                        \* NoEval when it compared none, NotCalled before any call
    stop_event,         \* self.stop_event.set() was called
    history,            \* trade outcomes of the current session, oldest first
    trading_config,     \* TradingConfig row: operation mode and session schedule
    now,                \* datetime.now(): day number and second of the day
    next_schedule,      \* value returned by the last get_next_schedule
    is_running,         \* TradingBot.is_running
    current_session,    \* TradingBot.current_session ("none" for None)
    pc,                 \* where the bot thread is
    next_session_time,  \* local of _pause_until_next_session, in seconds
    wait_seconds,       \* local of _pause_until_next_session
    sleep_time,         \* argument of the time.sleep in progress
    consumed,           \* sessions whose target was reached today
    starts,             \* start requests served so far
    started,            \* what the last start request found and did
    target_at,          \* instant of the last target-reached pause of this instance
    placed_after_stop,  \* a trade was placed while the stop signal was raised
    stop_requested_at,  \* instant of the stop request, NoTime when none
    stop_delay,         \* seconds from the stop request to its observation
    trading_bot,        \* app.trading_bot: the registered instance, NoBot for None
    alive,              \* instances whose thread has not ended
    instances,          \* TradingBot instances created so far
    last_stop,          \* outcome of the last call of stop()
    saved_config,       \* TradingConfig.operation_mode of each user's row
    bot_config,         \* operation mode each instance works with, by instance id
    last_save,          \* what the last step did if it was a save_config request
    reply,              \* answer of the last /bot/start, /bot/stop or /bot/status request
    connection_failures,\* routes.connection_failures: per user count and last_failure
    balance_cache,      \* cache entries "balance:<user>": balance and expiry
    wall,               \* time.time(), in seconds
    streak,             \* per user: failed connection attempts in a row
    requests,           \* dashboard requests served so far
    ticks,              \* times the wall clock was advanced
    response,           \* what the last dashboard request did
    runners,            \* Runner loops that are executing
    in_flight,          \* trades placed and not yet resolved
    forced,             \* direction of the forced trade waiting for the Runner
    step,               \* what the last step of the bot or of a request did
    status,             \* value returned by the last status query
    committed,          \* session state after the last completed update
    attempts,           \* RateLimiter.attempts of the client: instants, oldest first
    blocked_until,      \* RateLimiter.blocked_ips of the client, 0 for no entry
    served,             \* what became of the last request through limit_requests
    flags,              \* config.auto_restart and config.continuous_mode
    paused,             \* MockTradingBot.paused (test_pause_system_fix.py)
    stopped,            \* MockTradingBot.stopped
    windows,            \* start and end time of each session of the mock's config
    clock,              \* datetime.now().time(), in seconds of the day
    in_session          \* the last answer of _is_in_session_time

ledgerVars == <<bot, config, initial_balance, current_balance, session_profit,
                session_trades, martingale_level, consecutive_losses, result,
                should_continue, event, evalLevel, stop_event, history>>
clockVars == <<trading_config, now, next_schedule>>
orchVars == <<is_running, current_session, pc, next_session_time, wait_seconds, sleep_time,
              consumed, starts, started, target_at, placed_after_stop, stop_requested_at,
              stop_delay>>

regVars == <<trading_bot, alive, instances, last_stop, saved_config, bot_config, last_save,
             reply>>

connVars == <<connection_failures, balance_cache, wall, streak, requests, ticks, response>>
runVars == <<runners, in_flight, forced, step, status, committed>>
limVars == <<attempts, blocked_until, served>>
pauseVars == <<flags, paused, stopped>>
sessVars == <<windows, clock, in_session>>
restVars == <<connVars, runVars, limVars, pauseVars, sessVars>>

vars == <<ledgerVars, clockVars, orchVars, regVars, restVars>>

(* ------------------------------ bounds --------------------------------- *)

MaxTrades == 7

(* ----------------------------- constants ------------------------------- *)

Scale == 100 * 100          \* money units per dollar
Cent == Scale \div 100      \* money units per cent
NoEval == 0 - 1             \* evalLevel when the last call compared no target
NotCalled == 0 - 2          \* evalLevel when nothing was called since the state was set

(* ------------------------------ helpers -------------------------------- *)

RECURSIVE Pow(_, _)
Pow(b, e) == IF e = 0 THEN 1 ELSE b * Pow(b, e - 1)

\* The values round(balance * (pct / 100) * mult ** level, 2) can take, in cents,
\* for a balance in Scale units, pct in whole percent and mult in tenths.  Off a
\* tie the result is the nearest cent.  On an exact half cent the binary float
\* lies just above or just below the tie, so either neighbour can result.  The
\* product balance * pct * mult^level is split in two halves to stay in 32 bits.
RoundedShare(balance, pct, mult, level) ==
    LET M  == pct * Pow(mult, level)
        bh == balance \div Scale
        bl == balance % Scale
        t  == bl * M
        H  == bh * M + (t \div Scale)
        tl == t % Scale
        D  == Pow(10, level)
        q  == H \div D
        r  == (H % D) * Scale + tl
        d  == D * Scale
    IN  IF 2 * r < d THEN {q}
        ELSE IF 2 * r > d THEN {q + 1}
        ELSE {q, q + 1}

\* initial_balance * (percentage / 100), percentage in tenths of a percent.
\* Exact for every balance that is a multiple of ten cents.
PercentOf(balance, tenths) == (balance \div 1000) * tenths

(* ---------------------- configurations and inputs ---------------------- *)

\* TradingConfig of test_complete_system_verification.py, with the values the
\* scripts of the repository give its fields.
Stakings == { [use_balance_percentage |-> TRUE,  balance_percentage |-> 2, trade_amount |-> 10 * Scale],
              [use_balance_percentage |-> FALSE, balance_percentage |-> 2, trade_amount |-> 10 * Scale],
              [use_balance_percentage |-> FALSE, balance_percentage |-> 2, trade_amount |-> 20 * Scale] }
TakeProfits == {17, 50, 700}            \* 1.7%, 5% and 70%
StopLosses == {100, 300}                \* 10% and 30%
MaxLevels == {1, 3}

Config(st, tp, sl, en, mx, mult, auto) ==
    [use_balance_percentage |-> st.use_balance_percentage,
     balance_percentage     |-> st.balance_percentage,
     trade_amount           |-> st.trade_amount,
     take_profit            |-> tp,
     stop_loss              |-> sl,
     martingale_enabled     |-> en,
     max_martingale_levels  |-> mx,
     martingale_multiplier  |-> mult,
     auto_mode              |-> auto]

\* One completed trade: martingale level and consecutive losses at placement,
\* stake, outcome, what the call reported and session_profit after the trade.
Outcome(level, losses, amount, win, res, profit) ==
    [level |-> level, losses |-> losses, amount |-> amount, win |-> win,
     result |-> res, profit |-> profit]

(* --------------------------- Target Evaluator -------------------------- *)

\* Mutant: the threshold is a percentage of the live balance.
take_profit_value_live(initial, current, take_profit) == PercentOf(current, take_profit)

\* take_profit_value = getattr(self, 'initial_balance', self.get_current_balance())
\*                     * (self.config.take_profit / 100)
take_profit_value(initial, current, take_profit) == PercentOf(initial, take_profit)

\* Mutant: the comparison is strict.
take_profit_reached_strict(profit, initial, current, take_profit) ==
    profit > take_profit_value(initial, current, take_profit)

\* if self.session_profit >= take_profit_value
take_profit_reached(profit, initial, current, take_profit) ==
    profit >= take_profit_value(initial, current, take_profit)

\* stop_loss_value = initial_balance * (stop_loss / 100);
\* if self.session_profit <= -stop_loss_value
stop_loss_reached(profit, initial, stop_loss) ==
    profit <= 0 - PercentOf(initial, stop_loss)

(* ------------- CompleteSystemTester (martingale exhaustion) ------------ *)

\* Mutant: the stake grows linearly (multiplier * level) instead of geometrically.
CST_calculate_trade_amount_linear(cfg, balance, level) ==
    LET on == cfg.martingale_enabled /\ level > 0
        k  == IF on THEN level ELSE 1
        lv == IF on THEN 1 ELSE 0
    IN  IF cfg.use_balance_percentage
        THEN {Cent * c : c \in RoundedShare(balance, cfg.balance_percentage * k, cfg.martingale_multiplier, lv)}
        ELSE {Cent * c : c \in RoundedShare(cfg.trade_amount, 100 * k, cfg.martingale_multiplier, lv)}

CST_calculate_trade_amount(cfg, balance, level) ==
    LET lv == IF cfg.martingale_enabled /\ level > 0 THEN level ELSE 0
    IN  IF cfg.use_balance_percentage
        THEN {Cent * c : c \in RoundedShare(balance, cfg.balance_percentage, cfg.martingale_multiplier, lv)}
        ELSE {Cent * c : c \in RoundedShare(cfg.trade_amount, 100, cfg.martingale_multiplier, lv)}

\* Mutant: the win resets the level but forgets consecutive_losses.
CST_win_update_keeps_losses(level, losses) ==
    IF level > 0 THEN [level |-> 0, losses |-> losses]
                 ELSE [level |-> level, losses |-> losses]

\* Reset of the ledger after a win: level and consecutive_losses.
CST_win_update(level, losses) ==
    IF level > 0 THEN [level |-> 0, losses |-> 0]
                 ELSE [level |-> level, losses |-> losses]

\* Mutant: the continuing branch also clears consecutive_losses.
CST_loss_update_resets_losses(cfg, level, losses) ==
    IF cfg.martingale_enabled /\ level < cfg.max_martingale_levels
    THEN [level |-> level + 1, losses |-> 0, result |-> "continue_martingale"]
    ELSE [level |-> 0, losses |-> 0, result |-> "stop_loss_reached"]

\* Mutant: the limit test is <= instead of <.
CST_loss_update_off_by_one(cfg, level, losses) ==
    IF cfg.martingale_enabled /\ level <= cfg.max_martingale_levels
    THEN [level |-> level + 1, losses |-> losses, result |-> "continue_martingale"]
    ELSE [level |-> 0, losses |-> 0, result |-> "stop_loss_reached"]

\* Mutant: a loss with martingale disabled resets and keeps trading.
CST_loss_update_disabled_continues(cfg, level, losses) ==
    IF cfg.martingale_enabled /\ level < cfg.max_martingale_levels
    THEN [level |-> level + 1, losses |-> losses, result |-> "continue_martingale"]
    ELSE [level |-> 0, losses |-> 0,
          result |-> IF cfg.martingale_enabled THEN "stop_loss_reached" ELSE "continue_trading"]

\* Ledger update after a loss (consecutive_losses already incremented).
CST_loss_update(cfg, level, losses) ==
    IF cfg.martingale_enabled /\ level < cfg.max_martingale_levels
    THEN [level |-> level + 1, losses |-> losses, result |-> "continue_martingale"]
    ELSE [level |-> 0, losses |-> 0, result |-> "stop_loss_reached"]

Ended == result \in {"take_profit_reached", "stop_loss_reached"}

CST_simulate_trade_result(win) ==
    /\ bot = "CST"
    /\ ~Ended
    /\ session_trades < MaxTrades
    /\ \E trade_amount \in CST_calculate_trade_amount(config, current_balance, martingale_level) :
           /\ session_trades' = session_trades + 1
           /\ IF win
              THEN LET profit == (trade_amount * 85) \div 100
                       u == CST_win_update(martingale_level, consecutive_losses)
                   IN  /\ session_profit' = session_profit + profit
                       /\ current_balance' = current_balance + profit
                       /\ martingale_level' = u.level
                       /\ consecutive_losses' = u.losses
                       /\ evalLevel' = u.level
                       /\ result' = IF take_profit_reached(session_profit + profit, initial_balance,
                                                           current_balance + profit, config.take_profit)
                                    THEN "take_profit_reached" ELSE "continue_trading"
              ELSE LET u == CST_loss_update(config, martingale_level, consecutive_losses + 1)
                   IN  /\ session_profit' = session_profit - trade_amount
                       /\ current_balance' = current_balance - trade_amount
                       /\ martingale_level' = u.level
                       /\ consecutive_losses' = u.losses
                       /\ evalLevel' = IF u.result = "stop_loss_reached" THEN u.level ELSE NoEval
                       /\ result' = u.result
           /\ event' = IF result' \in {"take_profit_reached", "stop_loss_reached"} THEN result' ELSE "none"
           /\ history' = Append(history, Outcome(martingale_level, consecutive_losses, trade_amount,
                                                 win, result', session_profit'))
    /\ UNCHANGED <<bot, config, initial_balance, should_continue, stop_event>>
    /\ UNCHANGED <<clockVars, orchVars, regVars, restVars>>

\* Mutant: the reset leaves the session profit as it is.
CST_reset_keeps_profit ==
    /\ bot = "CST"
    /\ session_trades > 0
    /\ UNCHANGED session_profit
    /\ current_balance' = initial_balance
    /\ martingale_level' = 0
    /\ session_trades' = 0
    /\ consecutive_losses' = 0
    /\ result' = "none"
    /\ event' = "none"
    /\ evalLevel' = NotCalled
    /\ history' = <<>>
    /\ UNCHANGED <<bot, config, initial_balance, should_continue, stop_event>>
    /\ UNCHANGED <<clockVars, orchVars, regVars, restVars>>

\* "Reset para teste": the tester starts a fresh session.
CST_reset ==
    /\ bot = "CST"
    /\ session_trades > 0
    /\ session_profit' = 0
    /\ current_balance' = initial_balance
    /\ martingale_level' = 0
    /\ session_trades' = 0
    /\ consecutive_losses' = 0
    /\ result' = "none"
    /\ event' = "none"
    /\ evalLevel' = NotCalled
    /\ history' = <<>>
    /\ UNCHANGED <<bot, config, initial_balance, should_continue, stop_event>>
    /\ UNCHANGED <<clockVars, orchVars, regVars, restVars>>

(* ------- MockTradingBot of test_martingale_targets (percentage stop) --- *)

MT_calculate_trade_amount(cfg, balance, level) ==
    LET lv == IF level > 0 THEN level ELSE 0
    IN  IF cfg.use_balance_percentage
        THEN {Cent * c : c \in RoundedShare(balance, cfg.balance_percentage, cfg.martingale_multiplier, lv)}
        ELSE {Cent * c : c \in RoundedShare(cfg.trade_amount, 100, cfg.martingale_multiplier, lv)}

MT_win_update(level, losses) == [level |-> 0, losses |-> 0]

\* Mutant: the limit test is <= instead of <.
MT_loss_update_off_by_one(cfg, level, losses) ==
    IF cfg.martingale_enabled /\ level <= cfg.max_martingale_levels
    THEN [level |-> level + 1, losses |-> losses, result |-> "continue_martingale"]
    ELSE [level |-> 0, losses |-> losses, result |-> "exhausted"]

\* Ledger update after a loss (consecutive_losses already incremented); result
\* is "exhausted" when the stop-loss percentage is then consulted.
MT_loss_update(cfg, level, losses) ==
    IF cfg.martingale_enabled /\ level < cfg.max_martingale_levels
    THEN [level |-> level + 1, losses |-> losses, result |-> "continue_martingale"]
    ELSE [level |-> 0, losses |-> losses, result |-> "exhausted"]

MT_simulate_trade_result(win) ==
    /\ bot = "MT"
    /\ ~Ended
    /\ session_trades < MaxTrades
    /\ \E trade_amount \in MT_calculate_trade_amount(config, current_balance, martingale_level) :
       LET profit == IF win THEN (trade_amount * 85) \div 100 ELSE 0 - trade_amount
       IN  /\ session_trades' = session_trades + 1
           /\ session_profit' = session_profit + profit
           /\ current_balance' = current_balance + profit
           /\ IF win
              THEN LET u == MT_win_update(martingale_level, consecutive_losses)
                   IN  /\ martingale_level' = u.level
                       /\ consecutive_losses' = u.losses
                       /\ evalLevel' = u.level
                       /\ result' = IF take_profit_reached(session_profit', initial_balance,
                                                           current_balance', config.take_profit)
                                    THEN "take_profit_reached" ELSE "continue"
              ELSE LET u == MT_loss_update(config, martingale_level, consecutive_losses + 1)
                   IN  /\ martingale_level' = u.level
                       /\ consecutive_losses' = u.losses
                       /\ evalLevel' = IF u.result = "exhausted" THEN u.level ELSE NoEval
                       /\ result' = IF u.result = "exhausted"
                                    THEN IF stop_loss_reached(session_profit', initial_balance, config.stop_loss)
                                         THEN "stop_loss_reached" ELSE "continue"
                                    ELSE u.result
           /\ event' = IF result' \in {"take_profit_reached", "stop_loss_reached"} THEN result' ELSE "none"
           /\ history' = Append(history, Outcome(martingale_level, consecutive_losses, trade_amount,
                                                 win, result', session_profit'))
    /\ UNCHANGED <<bot, config, initial_balance, should_continue, stop_event>>
    /\ UNCHANGED <<clockVars, orchVars, regVars, restVars>>

(* ---------- FixedTradingBot and its runner (test_fix_verification) ----- *)

\* multipliers = [1.0, 2.5, 6.25, 15.625], in thousandths
FIXED_multipliers == <<1000, 2500, 6250, 15625>>

FIXED_calculate_trade_amount(base_amount, level) ==
    LET idx == IF level < Len(FIXED_multipliers) - 1 THEN level ELSE Len(FIXED_multipliers) - 1
    IN  (base_amount * FIXED_multipliers[idx + 1]) \div 1000

\* Martingale level after simulate_trade_result.
FIXED_level_update(cfg, level, win) ==
    IF win
    THEN IF level > 0 THEN 0 ELSE level
    ELSE IF cfg.martingale_enabled /\ level < cfg.max_martingale_levels THEN level + 1 ELSE level

\* Mutant: the targets are compared at every martingale level.
FIXED_should_continue_trading_unguarded(cfg, level, profit, initial, current) ==
    IF take_profit_reached(profit, initial, current, cfg.take_profit)
    THEN [continue |-> FALSE, event |-> "take_profit_reached", eval |-> level]
    ELSE IF stop_loss_reached(profit, initial, cfg.stop_loss)
         THEN [continue |-> FALSE, event |-> "stop_loss_reached", eval |-> level]
    ELSE [continue |-> TRUE, event |-> "none", eval |-> level]

\* _should_continue_trading_fixed: returned value, event logged, level at which
\* the targets were compared.
FIXED_should_continue_trading(cfg, level, profit, initial, current) ==
    IF level # 0 THEN [continue |-> TRUE, event |-> "none", eval |-> NoEval]
    ELSE IF take_profit_reached(profit, initial, current, cfg.take_profit)
         THEN [continue |-> FALSE, event |-> "take_profit_reached", eval |-> level]
    ELSE IF stop_loss_reached(profit, initial, cfg.stop_loss)
         THEN [continue |-> FALSE, event |-> "stop_loss_reached", eval |-> level]
    ELSE [continue |-> TRUE, event |-> "none", eval |-> level]

\* One iteration of the loop of test_scenario: stake, trade result, target check.
FIXED_trade(win) ==
    /\ bot = "FIXED"
    /\ should_continue
    /\ session_trades < MaxTrades
    /\ LET trade_amount == FIXED_calculate_trade_amount(10 * Scale, martingale_level)
           profit == IF win THEN (trade_amount * 85) \div 100 ELSE 0 - trade_amount
           lv == FIXED_level_update(config, martingale_level, win)
           c == FIXED_should_continue_trading(config, lv, session_profit + profit, initial_balance,
                                              initial_balance + session_profit + profit)
       IN  /\ session_trades' = session_trades + 1
           /\ session_profit' = session_profit + profit
           /\ current_balance' = initial_balance + session_profit'
           /\ martingale_level' = lv
           /\ should_continue' = c.continue
           /\ evalLevel' = c.eval
           /\ event' = c.event
           /\ history' = Append(history, Outcome(martingale_level, consecutive_losses, trade_amount,
                                                 win, c.event, session_profit'))
    /\ UNCHANGED <<bot, config, initial_balance, consecutive_losses, result, stop_event>>
    /\ UNCHANGED <<clockVars, orchVars, regVars, restVars>>

(* ---------- MockTradingBot of test_simple_automatic_mode --------------- *)

SimpleProfits == {0 - 100, 0 - 99, 0, 49, 50, 51}     \* dollars
SimpleLevels == 0..3

\* self.stop_event = Mock(); self.stop_event.is_set.return_value = False
stop_event_is_set(called) == FALSE

\* Mutant: stop_event.set() is called in auto mode too.
SIMPLE_should_continue_trading_auto_stops(cfg, level, profit, initial, current, called) ==
    IF stop_event_is_set(called)
    THEN [continue |-> FALSE, event |-> "none", set |-> called, eval |-> NoEval]
    ELSE IF level > 0
    THEN [continue |-> TRUE, event |-> "none", set |-> called, eval |-> NoEval]
    ELSE IF take_profit_reached(profit, initial, current, cfg.take_profit)
    THEN [continue |-> FALSE, event |-> "take_profit_reached", set |-> TRUE, eval |-> level]
    ELSE IF stop_loss_reached(profit, initial, cfg.stop_loss)
    THEN [continue |-> FALSE, event |-> "stop_loss_reached", set |-> TRUE, eval |-> level]
    ELSE [continue |-> TRUE, event |-> "none", set |-> called, eval |-> level]

\* Mutant: stop_event.set() is not called in manual mode either.
SIMPLE_should_continue_trading_manual_silent(cfg, level, profit, initial, current, called) ==
    IF stop_event_is_set(called)
    THEN [continue |-> FALSE, event |-> "none", set |-> called, eval |-> NoEval]
    ELSE IF level > 0
    THEN [continue |-> TRUE, event |-> "none", set |-> called, eval |-> NoEval]
    ELSE IF take_profit_reached(profit, initial, current, cfg.take_profit)
    THEN [continue |-> FALSE, event |-> "take_profit_reached", set |-> called, eval |-> level]
    ELSE IF stop_loss_reached(profit, initial, cfg.stop_loss)
    THEN [continue |-> FALSE, event |-> "stop_loss_reached", set |-> called, eval |-> level]
    ELSE [continue |-> TRUE, event |-> "none", set |-> called, eval |-> level]

\* _should_continue_trading: returned value, notification sent, stop_event.set()
\* called, level at which the targets were compared.
SIMPLE_should_continue_trading(cfg, level, profit, initial, current, called) ==
    IF stop_event_is_set(called)
    THEN [continue |-> FALSE, event |-> "none", set |-> called, eval |-> NoEval]
    ELSE IF level > 0
    THEN [continue |-> TRUE, event |-> "none", set |-> called, eval |-> NoEval]
    ELSE IF take_profit_reached(profit, initial, current, cfg.take_profit)
    THEN [continue |-> FALSE, event |-> "take_profit_reached",
          set |-> IF cfg.auto_mode THEN called ELSE TRUE, eval |-> level]
    ELSE IF stop_loss_reached(profit, initial, cfg.stop_loss)
    THEN [continue |-> FALSE, event |-> "stop_loss_reached",
          set |-> IF cfg.auto_mode THEN called ELSE TRUE, eval |-> level]
    ELSE [continue |-> TRUE, event |-> "none", set |-> called, eval |-> level]

\* The test assigns bot.session_profit and bot.martingale_level directly.
SIMPLE_set_state(profit, level) ==
    /\ bot = "SIMPLE"
    /\ session_profit' = profit * Scale
    /\ martingale_level' = level
    /\ evalLevel' = NotCalled
    /\ UNCHANGED <<bot, config, initial_balance, current_balance, session_trades,
                   consecutive_losses, result, should_continue, event, stop_event, history>>
    /\ UNCHANGED <<clockVars, orchVars, regVars, restVars>>

SIMPLE_check ==
    /\ bot = "SIMPLE"
    /\ LET c == SIMPLE_should_continue_trading(config, martingale_level, session_profit,
                                               initial_balance, current_balance, stop_event)
       IN  /\ should_continue' = c.continue
           /\ event' = c.event
           /\ stop_event' = c.set
           /\ evalLevel' = c.eval
    /\ UNCHANGED <<bot, config, initial_balance, current_balance, session_profit, session_trades,
                   martingale_level, consecutive_losses, result, history>>
    /\ UNCHANGED <<clockVars, orchVars, regVars, restVars>>

\* bot.stop_event.reset_mock()
SIMPLE_reset_mock ==
    /\ bot = "SIMPLE"
    /\ stop_event
    /\ stop_event' = FALSE
    /\ UNCHANGED <<bot, config, initial_balance, current_balance, session_profit, session_trades,
                   martingale_level, consecutive_losses, result, should_continue, event,
                   evalLevel, history>>
    /\ UNCHANGED <<clockVars, orchVars, regVars, restVars>>

(* ---------------------------- specification ---------------------------- *)

InitState(b, cfg, ib) ==
    /\ bot = b
    /\ config = cfg
    /\ initial_balance = ib
    /\ current_balance = ib
    /\ session_profit = 0
    /\ session_trades = 0
    /\ martingale_level = 0
    /\ consecutive_losses = 0
    /\ result = "none"
    /\ should_continue = TRUE
    /\ event = "none"
    /\ evalLevel = NotCalled
    /\ stop_event = FALSE
    /\ history = <<>>

(* ---------------------------- session clock ----------------------------- *)
(* routes.py get_next_schedule.  A start time is the pair <<hour, minute>>  *)
(* of its "HH:MM" string, << >> when the column is empty; a time of day is  *)
(* a number of seconds since midnight.                                      *)

NoStart == << >>
NoTime == 0 - 1
DaySeconds == 24 * 3600

\* No TradingBot instance exists.
NoThread ==
    /\ is_running = FALSE
    /\ current_session = "none"
    /\ pc = "stopped"
    /\ next_session_time = NoTime
    /\ wait_seconds = 0
    /\ sleep_time = 0
    /\ consumed = {}
    /\ starts = 0
    /\ started = [at |-> NoTime]
    /\ target_at = NoTime
    /\ placed_after_stop = FALSE
    /\ stop_requested_at = NoTime
    /\ stop_delay = NoTime

NoBot == [id |-> 0, user |-> 0]
Users == {1, 2}
NoSave == [user |-> 0]
NoReply == [route |-> "none"]

\* app.trading_bot = None, no instance was ever created and every user's
\* configuration row has the default operation mode.
NoRegistry ==
    /\ trading_bot = NoBot
    /\ alive = {}
    /\ instances = 0
    /\ last_stop = "none"
    /\ saved_config = [u \in Users |-> "manual"]
    /\ bot_config = << >>
    /\ last_save = NoSave
    /\ reply = NoReply

NoFailures == [count |-> 0, last_failure |-> 0]
NoEntry == [balance |-> 0, expires |-> 0]
NoResponse == [user |-> 0]

\* connection_failures = {} and an empty cache.
NoConnections ==
    /\ connection_failures = [u \in Users |-> NoFailures]
    /\ balance_cache = [u \in Users |-> NoEntry]
    /\ wall = 0
    /\ streak = [u \in Users |-> 0]
    /\ requests = 0
    /\ ticks = 0
    /\ response = NoResponse

NoStep == [kind |-> "none"]
NoStatus == [queried |-> FALSE]
SessionState(level, losses, profit, trades) ==
    [martingale_level |-> level, consecutive_losses |-> losses,
     session_profit |-> profit, session_trades |-> trades]

\* No Runner, no trade in flight, no request made.
NoRunner ==
    /\ runners = 0
    /\ in_flight = 0
    /\ forced = "none"
    /\ step = NoStep
    /\ status = NoStatus
    /\ committed = SessionState(0, 0, 0, 0)

NotServed == [status |-> 0]

\* RateLimiter(): no attempt recorded, nobody blocked.
NoLimiter ==
    /\ attempts = << >>
    /\ blocked_until = 0
    /\ served = NotServed

Flags(auto_restart, continuous_mode) ==
    [auto_restart |-> auto_restart, continuous_mode |-> continuous_mode]

\* MockTradingConfig() and a bot that is neither paused nor stopped.
NoPause ==
    /\ flags = Flags(TRUE, TRUE)
    /\ paused = FALSE
    /\ stopped = FALSE

NotChecked == [session_type |-> "none"]

\* No session windows are configured and no session check was made.
NoWindows ==
    /\ windows = << >>
    /\ clock = 0
    /\ in_session = NotChecked

NoRest == NoConnections /\ NoRunner /\ NoLimiter /\ NoPause /\ NoWindows

NotAsked == [label |-> "not asked", start |-> NoStart]
NotScheduled == [label |-> "Não Programado", start |-> NoStart]
NoTradingConfig == [operation_mode |-> "none"]

\* datetime.strptime(s, '%H:%M').time()
TimeOf(hm) == hm[1] * 3600 + hm[2] * 60

TradingConfig(mode, me, ms, ae, as, ne, ns) ==
    [operation_mode |-> mode,
     morning_enabled |-> me, morning_start |-> ms,
     afternoon_enabled |-> ae, afternoon_start |-> as,
     night_enabled |-> ne, night_start |-> ns]

\* sessions.append(...) in the order morning, afternoon, night
AppendedSessions(cfg) ==
    LET all == << [name |-> "morning", enabled |-> cfg.morning_enabled, start |-> cfg.morning_start],
                  [name |-> "afternoon", enabled |-> cfg.afternoon_enabled, start |-> cfg.afternoon_start],
                  [name |-> "night", enabled |-> cfg.night_enabled, start |-> cfg.night_start] >>
        Listed(s) == s.start # NoStart /\ s.enabled
    IN  SelectSeq(all, Listed)

\* list.sort(key=time): stable, ascending
RECURSIVE InsertByTime(_, _)
InsertByTime(s, sorted) ==
    IF sorted = << >> THEN << s >>
    ELSE IF TimeOf(s.start) < TimeOf(Head(sorted).start) THEN << s >> \o sorted
    ELSE << Head(sorted) >> \o InsertByTime(s, Tail(sorted))

RECURSIVE SortByTime(_)
SortByTime(seq) ==
    IF seq = << >> THEN << >>
    ELSE InsertByTime(seq[Len(seq)], SortByTime(SubSeq(seq, 1, Len(seq) - 1)))

\* for ... in sessions: if current_time < session_time: return "Hoje ..."
RECURSIVE FirstToday_or_equal(_, _)
FirstToday_or_equal(sessions, current_time) ==
    IF sessions = << >> THEN NotScheduled
    ELSE IF current_time <= TimeOf(Head(sessions).start)
         THEN [label |-> "Hoje", start |-> Head(sessions).start]
    ELSE FirstToday_or_equal(Tail(sessions), current_time)

RECURSIVE FirstToday(_, _)
FirstToday(sessions, current_time) ==
    IF sessions = << >> THEN NotScheduled
    ELSE IF current_time < TimeOf(Head(sessions).start)
         THEN [label |-> "Hoje", start |-> Head(sessions).start]
    ELSE FirstToday(Tail(sessions), current_time)

get_next_schedule(cfg, current_time) ==
    IF cfg.operation_mode # "auto" THEN NotScheduled
    ELSE LET sessions == SortByTime(AppendedSessions(cfg))
             today == FirstToday(sessions, current_time)
         IN  IF today # NotScheduled THEN today
             ELSE IF sessions # << >> THEN [label |-> "Amanhã", start |-> sessions[1].start]
             ELSE NotScheduled

\* Schedules a saved configuration can hold: an enabled session has a start
\* time (validators.py).
Starts == {NoStart, <<9, 0>>, <<14, 0>>}
SessionChoices == {c \in BOOLEAN \X Starts : c[1] => c[2] # NoStart}
TradingConfigs ==
    {TradingConfig(mode, m[1], m[2], a[1], a[2], n[1], n[2]) :
        mode \in {"auto", "manual"}, m \in SessionChoices, a \in SessionChoices, n \in SessionChoices}

\* Instants at which the dashboard asks: around each start and around midnight.
Instants == {0, 9 * 3600 - 1, 9 * 3600, 9 * 3600 + 1, 10 * 3600,
             14 * 3600, 15 * 3600, 24 * 3600 - 1}

CLOCK_init ==
    /\ InitState("CLOCK", Config(CHOOSE st \in Stakings : st.use_balance_percentage,
                                 50, 100, TRUE, 3, 20, TRUE), 1000 * Scale)
    /\ trading_config \in TradingConfigs
    /\ now \in {[day |-> 0, tod |-> t] : t \in Instants}
    /\ next_schedule = NotAsked
    /\ NoThread
    /\ NoRegistry
    /\ NoRest

\* GET of the dashboard: the next session shown to the user.
CLOCK_get_next_schedule ==
    /\ bot = "CLOCK"
    /\ next_schedule' = get_next_schedule(trading_config, now.tod)
    /\ UNCHANGED <<ledgerVars, trading_config, now, orchVars, regVars, restVars>>

\* Time passes between two requests.
CLOCK_tick ==
    /\ bot = "CLOCK"
    /\ \E t \in Instants : t > now.tod /\ now' = [now EXCEPT !.tod = t]
    /\ next_schedule' = NotAsked
    /\ UNCHANGED <<ledgerVars, trading_config, orchVars, regVars, restVars>>

ClockNext == CLOCK_get_next_schedule \/ CLOCK_tick

ClockSpec == CLOCK_init /\ [][ClockNext]_vars

(* ----------------------------- orchestrator ----------------------------- *)
(* The bot thread: the trading loop of a session with the target check of   *)
(* _should_continue_trading (test_simple_automatic_mode.py), the pause of   *)
(* fix_automatic_pause_system.py, and start and stop requests.  The start   *)
(* of the bot, its session clock and the glue of the loop are not part of   *)
(* the sources at hand and follow the written description of the bot.       *)

MaxStarts == 2
MaxMinutes == 8
Horizon == DaySeconds + MaxMinutes * 60

Abs(t) == t.day * DaySeconds + t.tod
At(secs) == [day |-> secs \div DaySeconds, tod |-> secs % DaySeconds]
Min(a, b) == IF a < b THEN a ELSE b
Max(a, b) == IF a > b THEN a ELSE b

SessionNames == {"morning", "afternoon", "night"}
StartOf(cfg, name) ==
    CASE name = "morning" -> cfg.morning_start
      [] name = "afternoon" -> cfg.afternoon_start
      [] name = "night" -> cfg.night_start
EnabledIn(cfg, name) ==
    CASE name = "morning" -> cfg.morning_enabled
      [] name = "afternoon" -> cfg.afternoon_enabled
      [] name = "night" -> cfg.night_enabled

\* Mutant: a session ends two minutes after its start.
IsSessionActive_with_end(cfg, name, t, used) ==
    /\ EnabledIn(cfg, name) /\ StartOf(cfg, name) # NoStart
    /\ TimeOf(StartOf(cfg, name)) <= t.tod
    /\ t.tod <= TimeOf(StartOf(cfg, name)) + 120
    /\ name \notin used

\* Mutant: a session is active only after its start instant.
IsSessionActive_after_start(cfg, name, t, used) ==
    /\ EnabledIn(cfg, name) /\ StartOf(cfg, name) # NoStart
    /\ TimeOf(StartOf(cfg, name)) < t.tod
    /\ name \notin used

\* _is_in_session_time: from the start time on, until the session's target is
\* reached; no end time.
IsSessionActive(cfg, name, t, used) ==
    /\ EnabledIn(cfg, name) /\ StartOf(cfg, name) # NoStart
    /\ TimeOf(StartOf(cfg, name)) <= t.tod
    /\ name \notin used

ActiveSessions(cfg, t, used) == {name \in SessionNames : IsSessionActive(cfg, name, t, used)}

\* The active session that started last.
MostRecent(cfg, S) ==
    {name \in S : \A other \in S : TimeOf(StartOf(cfg, other)) <= TimeOf(StartOf(cfg, name))}

\* _get_next_session_time: the instant of the next enabled start, NoTime if
\* there is none.
get_next_session_time(cfg, t) ==
    LET sessions == SortByTime(AppendedSessions(cfg))
        today == FirstToday(sessions, t.tod)
    IN  IF today # NotScheduled THEN t.day * DaySeconds + TimeOf(today.start)
        ELSE IF sessions # << >> THEN (t.day + 1) * DaySeconds + TimeOf(sessions[1].start)
        ELSE NoTime

\* Mutant: the stop signal is not looked at before the targets.
ORCH_should_continue_trading_unsignalled(cfg, level, profit, initial, current, is_set) ==
    SIMPLE_should_continue_trading(cfg, level, profit, initial, current, is_set)

\* _should_continue_trading with a real threading.Event as stop_event.
ORCH_should_continue_trading(cfg, level, profit, initial, current, is_set) ==
    IF is_set
    THEN [continue |-> FALSE, event |-> "none", set |-> TRUE, eval |-> NoEval]
    ELSE SIMPLE_should_continue_trading(cfg, level, profit, initial, current, FALSE)

Check ==
    ORCH_should_continue_trading(config, martingale_level, session_profit, initial_balance,
                                 current_balance, stop_event)

\* Seconds between the stop request and now, NoTime when none was made.
Delay(t) == IF stop_requested_at = NoTime THEN NoTime ELSE Abs(t) - stop_requested_at

\* Mutant: the pause leaves consecutive_losses as it is.
ResetSession_keeps_losses ==
    /\ session_profit' = 0
    /\ session_trades' = 0
    /\ martingale_level' = 0
    /\ UNCHANGED consecutive_losses

\* self.session_profit = 0.0; self.session_trades = 0; self.martingale_level = 0;
\* self.consecutive_losses = 0
ResetSession ==
    /\ session_profit' = 0
    /\ session_trades' = 0
    /\ martingale_level' = 0
    /\ consecutive_losses' = 0

\* The wait of _pause_until_next_session begins: next_session_time and
\* wait_seconds are computed from the clock.  The next start is strictly
\* later than now, so the branch "else: time.sleep(60)" for a wait that is
\* not positive is never taken.
BeginWait ==
    /\ next_session_time' = get_next_session_time(trading_config, now)
    /\ wait_seconds' = IF next_session_time' = NoTime THEN 0 ELSE next_session_time' - Abs(now)
    /\ sleep_time' = 0
    /\ pc' = "wait"

\* POST /bot/start with no instance alive: a new TradingBot is built and
\* started.  In auto mode it runs at once the enabled session that is active,
\* and waits for the next start otherwise; in manual mode it trades at once.
ORCH_start ==
    /\ bot = "ORCH"
    /\ pc = "stopped"
    /\ starts < MaxStarts
    /\ starts' = starts + 1
    /\ is_running' = TRUE
    /\ stop_event' = FALSE
    /\ ResetSession
    /\ current_balance' = initial_balance
    /\ event' = "none"
    /\ should_continue' = TRUE
    /\ consumed' = {}
    /\ placed_after_stop' = FALSE
    /\ stop_requested_at' = NoTime
    /\ stop_delay' = NoTime
    /\ target_at' = NoTime
    /\ IF ~config.auto_mode
       THEN /\ current_session' = "manual"
            /\ pc' = "loop"
            /\ started' = [at |-> Abs(now), running |-> TRUE, next |-> NoTime, traded_at |-> NoTime]
            /\ UNCHANGED <<next_session_time, wait_seconds, sleep_time>>
       ELSE LET active == ActiveSessions(trading_config, now, {})
                next == get_next_session_time(trading_config, now)
            IN  /\ started' = [at |-> Abs(now), running |-> active # {}, next |-> next,
                               traded_at |-> NoTime]
                /\ IF active # {}
                   THEN /\ current_session' \in MostRecent(trading_config, active)
                        /\ pc' = "loop"
                        /\ UNCHANGED <<next_session_time, wait_seconds, sleep_time>>
                   ELSE /\ current_session' = "none"
                        /\ BeginWait
    /\ UNCHANGED <<bot, config, initial_balance, result, evalLevel, history, clockVars>>
    /\ UNCHANGED <<regVars, restVars>>

\* A loop iteration that finds no target reached and no stop signal: the
\* trade is placed.
ORCH_place_trade ==
    /\ bot = "ORCH"
    /\ pc = "loop"
    /\ session_trades < MaxTrades
    /\ Check.continue
    /\ pc' = "in_flight"
    /\ should_continue' = TRUE
    /\ placed_after_stop' = (placed_after_stop \/ stop_event)
    /\ started' = IF started.traded_at = NoTime THEN [started EXCEPT !.traded_at = Abs(now)] ELSE started
    /\ UNCHANGED <<bot, config, initial_balance, current_balance, session_profit, session_trades,
                   martingale_level, consecutive_losses, result, event, evalLevel, stop_event,
                   history, clockVars, is_running, current_session, next_session_time,
                   wait_seconds, sleep_time, consumed, starts, stop_requested_at, stop_delay>>
    /\ UNCHANGED target_at
    /\ UNCHANGED <<regVars, restVars>>

\* The trade in flight resolves after its one minute; the ledger is updated.
ORCH_trade_result(win) ==
    /\ bot = "ORCH"
    /\ pc = "in_flight"
    /\ Abs(now) + 60 <= Horizon
    /\ now' = At(Abs(now) + 60)
    /\ \E trade_amount \in MT_calculate_trade_amount(config, current_balance, martingale_level) :
       LET profit == IF win THEN (trade_amount * 85) \div 100 ELSE 0 - trade_amount
           u == IF win THEN MT_win_update(martingale_level, consecutive_losses)
                ELSE MT_loss_update(config, martingale_level, consecutive_losses + 1)
       IN  /\ session_trades' = session_trades + 1
           /\ session_profit' = session_profit + profit
           /\ current_balance' = current_balance + profit
           /\ martingale_level' = u.level
           /\ consecutive_losses' = u.losses
    /\ pc' = "loop"
    /\ UNCHANGED <<bot, config, initial_balance, result, should_continue, event, evalLevel,
                   stop_event, history, trading_config, next_schedule, is_running,
                   current_session, next_session_time, wait_seconds, sleep_time, consumed,
                   starts, started, placed_after_stop, stop_requested_at, stop_delay>>
    /\ UNCHANGED target_at
    /\ UNCHANGED <<regVars, restVars>>

\* A loop iteration that finds a target reached in auto mode:
\* _should_continue_trading returns False and _pause_until_next_session runs.
ORCH_target_pause ==
    /\ bot = "ORCH"
    /\ pc = "loop"
    /\ config.auto_mode
    /\ Check.event # "none"
    /\ event' = Check.event
    /\ should_continue' = FALSE
    /\ stop_event' = Check.set
    /\ current_session' = "none"
    /\ ResetSession
    /\ consumed' = consumed \cup {current_session}
    /\ BeginWait
    /\ target_at' = Abs(now)
    /\ UNCHANGED <<bot, config, initial_balance, current_balance, result, evalLevel, history,
                   clockVars, is_running, starts, started, placed_after_stop,
                   stop_requested_at, stop_delay>>
    /\ UNCHANGED <<regVars, restVars>>

\* A loop iteration that finds a target reached in manual mode:
\* _should_continue_trading sets stop_event and the thread ends.
ORCH_target_stop ==
    /\ bot = "ORCH"
    /\ pc = "loop"
    /\ ~config.auto_mode
    /\ Check.event # "none"
    /\ event' = Check.event
    /\ should_continue' = FALSE
    /\ stop_event' = Check.set
    /\ pc' = IF Check.set THEN "stopped" ELSE "loop"
    /\ UNCHANGED <<bot, config, initial_balance, current_balance, session_profit, session_trades,
                   martingale_level, consecutive_losses, result, evalLevel, history, clockVars,
                   is_running, current_session, next_session_time, wait_seconds, sleep_time,
                   consumed, starts, started, placed_after_stop, stop_requested_at, stop_delay>>
    /\ UNCHANGED target_at
    /\ UNCHANGED <<regVars, restVars>>

\* A loop iteration that finds the stop signal raised: the thread ends.
ORCH_loop_stopped ==
    /\ bot = "ORCH"
    /\ pc = "loop"
    /\ stop_event
    /\ ~Check.continue /\ Check.event = "none"
    /\ should_continue' = FALSE
    /\ pc' = "stopped"
    /\ stop_delay' = Delay(now)
    /\ UNCHANGED <<bot, config, initial_balance, current_balance, session_profit, session_trades,
                   martingale_level, consecutive_losses, result, event, evalLevel, stop_event,
                   history, clockVars, is_running, current_session, next_session_time,
                   wait_seconds, sleep_time, consumed, starts, started, placed_after_stop,
                   stop_requested_at>>
    /\ UNCHANGED target_at
    /\ UNCHANGED <<regVars, restVars>>

\* while wait_seconds > 0 and self.is_running and not self.stop_event.is_set():
\*     sleep_time = min(wait_seconds, 60); time.sleep(sleep_time)
ORCH_wait_sleep ==
    /\ bot = "ORCH"
    /\ pc = "wait"
    /\ next_session_time # NoTime
    /\ wait_seconds > 0 /\ is_running /\ ~stop_event
    /\ sleep_time' = Min(wait_seconds, 60)
    /\ pc' = "sleeping"
    /\ UNCHANGED <<ledgerVars, clockVars, is_running, current_session, next_session_time,
                   wait_seconds, consumed, starts, started, placed_after_stop,
                   stop_requested_at, stop_delay>>
    /\ UNCHANGED target_at
    /\ UNCHANGED <<regVars, restVars>>

\* else: time.sleep(300) when no next session was found.
ORCH_wait_no_session ==
    /\ bot = "ORCH"
    /\ pc = "wait"
    /\ next_session_time = NoTime
    /\ is_running /\ ~stop_event
    /\ sleep_time' = 300
    /\ pc' = "sleeping"
    /\ UNCHANGED <<ledgerVars, clockVars, is_running, current_session, next_session_time,
                   wait_seconds, consumed, starts, started, placed_after_stop,
                   stop_requested_at, stop_delay>>
    /\ UNCHANGED target_at
    /\ UNCHANGED <<regVars, restVars>>

\* time.sleep returns: wait_seconds -= sleep_time, recomputed from the clock
\* while more than a minute remains; after the sleep of the no-session branch
\* the next session is looked for again.
ORCH_wake ==
    /\ bot = "ORCH"
    /\ pc = "sleeping"
    /\ Abs(now) + sleep_time <= Horizon
    /\ now' = At(Abs(now) + sleep_time)
    /\ consumed' = IF now'.day = now.day THEN consumed ELSE {}
    /\ sleep_time' = 0
    /\ pc' = "wait"
    /\ IF next_session_time = NoTime
       THEN /\ next_session_time' = get_next_session_time(trading_config, now')
            /\ wait_seconds' = IF next_session_time' = NoTime THEN 0
                               ELSE next_session_time' - Abs(now')
       ELSE /\ wait_seconds' = IF wait_seconds - sleep_time > 60
                               THEN Max(0, next_session_time - Abs(now'))
                               ELSE wait_seconds - sleep_time
            /\ UNCHANGED next_session_time
    /\ UNCHANGED <<ledgerVars, trading_config, next_schedule, is_running, current_session,
                   starts, started, placed_after_stop, stop_requested_at, stop_delay>>
    /\ UNCHANGED target_at
    /\ UNCHANGED <<regVars, restVars>>

\* The wait ends because the stop signal is seen: the thread ends.
ORCH_wait_stopped ==
    /\ bot = "ORCH"
    /\ pc = "wait"
    /\ stop_event \/ ~is_running
    /\ pc' = "stopped"
    /\ stop_delay' = Delay(now)
    /\ UNCHANGED <<ledgerVars, clockVars, is_running, current_session, next_session_time,
                   wait_seconds, sleep_time, consumed, starts, started, placed_after_stop,
                   stop_requested_at>>
    /\ UNCHANGED target_at
    /\ UNCHANGED <<regVars, restVars>>

\* "Pause period completed - ready for next session": the session whose start
\* was waited for begins.
ORCH_session_start ==
    /\ bot = "ORCH"
    /\ pc = "wait"
    /\ next_session_time # NoTime
    /\ wait_seconds <= 0 /\ is_running /\ ~stop_event
    /\ current_session' \in {name \in SessionNames :
                                /\ EnabledIn(trading_config, name)
                                /\ StartOf(trading_config, name) # NoStart
                                /\ TimeOf(StartOf(trading_config, name)) = At(next_session_time).tod}
    /\ event' = "none"
    /\ pc' = "loop"
    /\ UNCHANGED <<bot, config, initial_balance, current_balance, session_profit, session_trades,
                   martingale_level, consecutive_losses, result, should_continue, evalLevel,
                   stop_event, history, clockVars, is_running, next_session_time, wait_seconds,
                   sleep_time, consumed, starts, started, placed_after_stop, stop_requested_at,
                   stop_delay>>
    /\ UNCHANGED target_at
    /\ UNCHANGED <<regVars, restVars>>

\* POST /bot/stop while the thread is alive: the stop signal is raised.
ORCH_stop_request ==
    /\ bot = "ORCH"
    /\ pc # "stopped"
    /\ ~stop_event
    /\ stop_event' = TRUE
    /\ is_running' = FALSE
    /\ stop_requested_at' = Abs(now)
    /\ UNCHANGED <<bot, config, initial_balance, current_balance, session_profit, session_trades,
                   martingale_level, consecutive_losses, result, should_continue, event, evalLevel,
                   history, clockVars, current_session, pc, next_session_time, wait_seconds,
                   sleep_time, consumed, starts, started, placed_after_stop, stop_delay>>
    /\ UNCHANGED target_at
    /\ UNCHANGED <<regVars, restVars>>

\* Schedules around midnight: a night session at 23:58, a morning session at
\* 00:02, an afternoon start at 00:04 that may be disabled, or no session at
\* all (continuous mode only).
OrchSchedules ==
    {TradingConfig(mode, m, <<0, 2>>, a, <<0, 4>>, n, <<23, 58>>) :
        mode \in {"auto", "manual"}, m \in BOOLEAN, a \in BOOLEAN, n \in BOOLEAN}
OrchInstants == {23 * 3600 + 57 * 60, 23 * 3600 + 58 * 60, 23 * 3600 + 59 * 60 + 30}

ORCH_init ==
    /\ \E tc \in OrchSchedules :
          /\ trading_config = tc
          /\ InitState("ORCH", Config(CHOOSE st \in Stakings : st.use_balance_percentage,
                                      50, 100, TRUE, 3, 20, tc.operation_mode = "auto"),
                       1000 * Scale)
    /\ now \in {[day |-> 0, tod |-> t] : t \in OrchInstants}
    /\ next_schedule = NotAsked
    /\ NoThread
    /\ NoRegistry
    /\ NoRest

OrchNext ==
    \/ ORCH_start
    \/ ORCH_place_trade
    \/ \E win \in BOOLEAN : ORCH_trade_result(win)
    \/ ORCH_target_pause
    \/ ORCH_target_stop
    \/ ORCH_loop_stopped
    \/ ORCH_wait_sleep
    \/ ORCH_wait_no_session
    \/ ORCH_wake
    \/ ORCH_wait_stopped
    \/ ORCH_session_start
    \/ ORCH_stop_request

OrchSpec == ORCH_init /\ [][OrchNext]_vars

\* The bot thread is a live thread: a sleep that was begun returns, and the
\* wait loop takes its next step.  Requests from outside and the outcome of
\* the market are under no such obligation.
OrchFairness ==
    /\ WF_vars(ORCH_wait_sleep)
    /\ WF_vars(ORCH_wake)
    /\ WF_vars(ORCH_session_start)

OrchLiveSpec == ORCH_init /\ [][OrchNext]_vars /\ OrchFairness

\* The ledger simulators have no schedule and read no clock.
NoClock ==
    /\ trading_config = NoTradingConfig
    /\ now = [day |-> 0, tod |-> 0]
    /\ next_schedule = NotAsked

CST_init ==
    \E st \in Stakings, tp \in TakeProfits, sl \in StopLosses, en \in BOOLEAN, mx \in MaxLevels :
        InitState("CST", Config(st, tp, sl, en, mx, 22, TRUE), 1000 * Scale)

MT_init ==
    \E st \in Stakings, tp \in TakeProfits, sl \in StopLosses, en \in BOOLEAN, mx \in MaxLevels :
        InitState("MT", Config(st, tp, sl, en, mx, 22, TRUE), 1000 * Scale)

FIXED_init ==
    \E tp \in TakeProfits, sl \in StopLosses, en \in BOOLEAN, mx \in MaxLevels, ib \in {100, 1000} :
        InitState("FIXED", Config(CHOOSE st \in Stakings : st.use_balance_percentage,
                                  tp, sl, en, mx, 25, TRUE), ib * Scale)

SIMPLE_init ==
    \E auto \in BOOLEAN :
        InitState("SIMPLE", Config(CHOOSE st \in Stakings : st.use_balance_percentage,
                                   50, 100, TRUE, 3, 20, auto), 1000 * Scale)

(* ------------------------------ bot registry ---------------------------- *)
(* routes.py start_bot and stop_bot around the module global                *)
(* app.trading_bot.  What stop() and start() of a TradingBot do is not in   *)
(* the sources at hand: a call may succeed, return False or raise.          *)

MaxInstances == 3
StopOutcomes == {"True", "False", "raised"}

\* The instances left alive by a call of b.stop(): a successful stop has
\* cancelled and joined the thread, a stop that returns False has not, and a
\* stop that raises may have failed before or after.
AliveAfterStop(b, outcome, joined) ==
    IF outcome = "True" \/ (outcome = "raised" /\ joined) THEN alive \ {b} ELSE alive

\* try: app_module.trading_bot.stop(); app_module.trading_bot = None
\* except Exception: logged only
RegisteredAfterStop(outcome) ==
    IF outcome = "raised" THEN trading_bot ELSE NoBot

\* POST /bot/start
REG_start_bot(user, outcome, joined, success) ==
    /\ bot = "REG"
    /\ instances < MaxInstances
    /\ LET new == [id |-> instances + 1, user |-> user]
           stopping == trading_bot # NoBot
           left == IF stopping THEN AliveAfterStop(trading_bot, outcome, joined) ELSE alive
           registered == IF stopping THEN RegisteredAfterStop(outcome) ELSE NoBot
       IN  /\ stopping \/ (outcome = "True" /\ joined)
           /\ last_stop' = IF stopping THEN outcome ELSE last_stop
           /\ instances' = instances + 1
           /\ alive' = IF success THEN left \cup {new} ELSE left
           /\ trading_bot' = IF success THEN new ELSE registered
    /\ bot_config' = Append(bot_config, saved_config[user])
    /\ last_save' = NoSave
    /\ reply' = [route |-> "start", code |-> IF success THEN 200 ELSE 500]
    /\ UNCHANGED saved_config
    /\ UNCHANGED <<ledgerVars, clockVars, orchVars, restVars>>

\* Mutant: every stop request is answered with success.
StopReply_always_ok(outcome) ==
    IF outcome = "False" THEN 200 ELSE 200

\* 'Bot parado com sucesso', 200, unless stop() returned False: 'Erro ao
\* parar bot', 500.
StopReply(outcome) ==
    IF outcome = "False" THEN 500 ELSE 200

\* get_or_create_trading_bot() of app.py hands out the registered instance
\* and registers none itself.
get_or_create_trading_bot == trading_bot

\* POST /bot/stop with an instance registered
REG_stop_bot(outcome, joined) ==
    /\ bot = "REG"
    /\ get_or_create_trading_bot # NoBot
    /\ last_stop' = outcome
    /\ alive' = AliveAfterStop(get_or_create_trading_bot, outcome, joined)
    /\ trading_bot' = IF outcome = "False" THEN trading_bot ELSE NoBot
    /\ last_save' = NoSave
    /\ reply' = [route |-> "stop", code |-> StopReply(outcome)]
    /\ UNCHANGED <<saved_config, bot_config>>
    /\ UNCHANGED <<ledgerVars, clockVars, orchVars, instances, restVars>>

\* The thread of an instance ends by itself (manual-mode target).
REG_thread_ends ==
    /\ bot = "REG"
    /\ \E b \in alive : alive' = alive \ {b}
    /\ last_save' = NoSave
    /\ reply' = NoReply
    /\ UNCHANGED <<saved_config, bot_config>>
    /\ UNCHANGED <<ledgerVars, clockVars, orchVars, trading_bot, instances, last_stop, restVars>>

UpdatesRunningBot_any_user(b, user) ==
    b # NoBot

\* if app_module.trading_bot is not None and
\*    app_module.trading_bot.user_id == user_id
UpdatesRunningBot(b, user) ==
    b # NoBot /\ b.user = user

\* POST /config: the row of the user is written and committed, then the new
\* configuration is handed to the registered bot of that user by
\* update_config; an exception of update_config is logged only.
REG_save_config(user, mode, raised) ==
    /\ bot = "REG"
    /\ saved_config' = [saved_config EXCEPT ![user] = mode]
    /\ bot_config' = IF UpdatesRunningBot(trading_bot, user) /\ ~raised
                     THEN [bot_config EXCEPT ![trading_bot.id] = mode]
                     ELSE bot_config
    /\ last_save' = [user |-> user, mode |-> mode, raised |-> raised,
                     registered |-> trading_bot, before |-> bot_config]
    /\ reply' = NoReply
    /\ UNCHANGED <<trading_bot, alive, instances, last_stop>>
    /\ UNCHANGED <<ledgerVars, clockVars, orchVars, restVars>>

\* GET /bot/status: the status of the registered instance, which reports
\* whether its thread runs, or the default status when none is registered.
REG_get_bot_status ==
    /\ bot = "REG"
    /\ reply' = [route |-> "status", code |-> 200,
                 running |-> IF trading_bot # NoBot THEN trading_bot \in alive ELSE FALSE]
    /\ last_save' = NoSave
    /\ UNCHANGED <<trading_bot, alive, instances, last_stop, saved_config, bot_config>>
    /\ UNCHANGED <<ledgerVars, clockVars, orchVars, restVars>>

REG_init ==
    /\ InitState("REG", Config(CHOOSE st \in Stakings : st.use_balance_percentage,
                               50, 100, TRUE, 3, 20, TRUE), 1000 * Scale)
    /\ NoClock
    /\ NoThread
    /\ NoRegistry
    /\ NoRest

RegNext ==
    \/ \E user \in Users, outcome \in StopOutcomes, joined \in BOOLEAN, success \in BOOLEAN :
          REG_start_bot(user, outcome, joined, success)
    \/ \E outcome \in StopOutcomes, joined \in BOOLEAN : REG_stop_bot(outcome, joined)
    \/ REG_thread_ends
    \/ REG_get_bot_status
    \/ \E user \in Users, mode \in {"auto", "manual"}, raised \in BOOLEAN :
          REG_save_config(user, mode, raised)

RegSpec == REG_init /\ [][RegNext]_vars

\* ---------------------------------------------------------------------
\* Broker connection tracker and balance cache (src/routes.py)
\* Balances are whole dollars, time.time() is in seconds.
\* ---------------------------------------------------------------------

MaxRequests == 5
MaxTicks == 3

FAILURE_COOLDOWN == 600
MAX_FAILURES == 3
BalanceTimeout == 300
FallbackBalance == 1000

\* What the broker answers to update_balance() of a working connection.
BrokerBalances == {750}
\* Seconds by which the wall clock advances between two requests.
Ticks == {1, 599}

\* How the temporary connection of one request ends.
ConnectOutcomes ==
    {"ok", "raises", "refused", "account_type_rejected", "zero_balance",
     "error", "no_credentials"}

\* cache.get("balance:<user>:<type>"): None (here 0) once the entry expired
get_cached_balance(entry, t) ==
    IF entry.balance > 0 /\ ~(t > entry.expires) THEN entry.balance ELSE 0

\* the entry cache.get leaves behind
CacheAfterGet(entry, t) ==
    IF entry.balance > 0 /\ t > entry.expires THEN NoEntry ELSE entry

set_cached_balance(balance, t) ==
    [balance |-> balance, expires |-> t + BalanceTimeout]

should_skip_connection_after_four(f, t) ==
    /\ f.count > MAX_FAILURES
    /\ t - f.last_failure < FAILURE_COOLDOWN

\* f is connection_failures[user_id], NoFailures when the user has no entry
should_skip_connection(f, t) ==
    /\ f.count >= MAX_FAILURES
    /\ t - f.last_failure < FAILURE_COOLDOWN

\* the entry should_skip_connection leaves behind: deleted after the cooldown
FailuresAfterCheck(f, t) ==
    IF f.count >= MAX_FAILURES /\ ~(t - f.last_failure < FAILURE_COOLDOWN)
    THEN NoFailures ELSE f

record_connection_failure(f, t) ==
    [count |-> f.count + 1, last_failure |-> t]

record_connection_success(f) == NoFailures

\* Calls of record_connection_failure one request makes for an outcome:
\* a raising connect() is recorded in its except clause and again in the
\* "Failed to connect" branch.
FailuresRecorded(outcome) ==
    CASE outcome = "raises" -> 2
      [] outcome \in {"refused", "account_type_rejected", "zero_balance", "error"} -> 1
      [] OTHER -> 0

RECURSIVE RecordFailures(_, _, _)
RecordFailures(f, n, t) ==
    IF n = 0 THEN f ELSE RecordFailures(record_connection_failure(f, t), n - 1, t)

\* The balance part of GET /dashboard/stats, for a request that is not
\* answered from the response cache.  bot_balance is the balance the running
\* bot reports, 0 when no bot runs.
CONN_dashboard_stats(user, bot_balance, outcome, real_balance) ==
    LET f == connection_failures[user]
        cached == get_cached_balance(balance_cache[user], wall)
        skip == should_skip_connection(f, wall)
        checked == FailuresAfterCheck(f, wall)
        run == IF checked = f THEN streak[user] ELSE 0
        pre == [user |-> user, streak |-> run, elapsed |-> wall - f.last_failure,
                count |-> f.count]
    IN
    /\ bot = "CONN"
    /\ requests < MaxRequests
    /\ requests' = requests + 1
    /\ IF bot_balance > 0
       THEN /\ balance_cache' = [balance_cache EXCEPT ![user] = set_cached_balance(bot_balance, wall)]
            /\ connection_failures' = [connection_failures EXCEPT ![user] = record_connection_success(f)]
            /\ streak' = [streak EXCEPT ![user] = 0]
            /\ response' = [pre EXCEPT !.streak = streak[user]] @@
                           [source |-> "bot", balance |-> bot_balance,
                            attempted |-> FALSE, suppressed |-> FALSE]
       ELSE IF cached > 0
       THEN /\ UNCHANGED <<balance_cache, connection_failures, streak>>
            /\ response' = [pre EXCEPT !.streak = streak[user]] @@
                           [source |-> "cache", balance |-> cached,
                            attempted |-> FALSE, suppressed |-> FALSE]
       ELSE IF skip
       THEN /\ balance_cache' = [balance_cache EXCEPT ![user] = CacheAfterGet(@, wall)]
            /\ UNCHANGED <<connection_failures, streak>>
            /\ response' = pre @@ [source |-> "fallback", balance |-> FallbackBalance,
                                   attempted |-> FALSE, suppressed |-> TRUE]
       ELSE IF outcome = "no_credentials"
       THEN /\ balance_cache' = [balance_cache EXCEPT ![user] = CacheAfterGet(@, wall)]
            /\ connection_failures' = [connection_failures EXCEPT ![user] = checked]
            /\ streak' = [streak EXCEPT ![user] = run]
            /\ response' = pre @@ [source |-> "fallback", balance |-> FallbackBalance,
                                   attempted |-> FALSE, suppressed |-> FALSE]
       ELSE IF outcome = "ok"
       THEN /\ balance_cache' = [balance_cache EXCEPT ![user] = set_cached_balance(real_balance, wall)]
            /\ connection_failures' = [connection_failures EXCEPT ![user] = record_connection_success(checked)]
            /\ streak' = [streak EXCEPT ![user] = 0]
            /\ response' = pre @@ [source |-> "broker", balance |-> real_balance,
                                   attempted |-> TRUE, suppressed |-> FALSE]
       ELSE /\ balance_cache' = [balance_cache EXCEPT ![user] = CacheAfterGet(@, wall)]
            /\ connection_failures' = [connection_failures EXCEPT ![user] =
                                          RecordFailures(checked, FailuresRecorded(outcome), wall)]
            /\ streak' = [streak EXCEPT ![user] = run + 1]
            /\ response' = pre @@ [source |-> "fallback", balance |-> FallbackBalance,
                                   attempted |-> TRUE, suppressed |-> FALSE]
    /\ UNCHANGED <<wall, ticks>>
    /\ UNCHANGED <<ledgerVars, clockVars, orchVars, regVars, runVars, limVars, pauseVars, sessVars>>

\* time.time() advances between two requests
CONN_tick(d) ==
    /\ bot = "CONN"
    /\ ticks < MaxTicks
    /\ ticks' = ticks + 1
    /\ wall' = wall + d
    /\ UNCHANGED <<connection_failures, balance_cache, streak, requests, response>>
    /\ UNCHANGED <<ledgerVars, clockVars, orchVars, regVars, runVars, limVars, pauseVars, sessVars>>

CONN_init ==
    /\ InitState("CONN", Config(CHOOSE st \in Stakings : st.use_balance_percentage,
                                50, 100, TRUE, 3, 20, TRUE), 1000 * Scale)
    /\ NoClock
    /\ NoThread
    /\ NoRegistry
    /\ NoRest

ConnNext ==
    \/ \E user \in Users, bot_balance \in {0} \cup BrokerBalances,
          outcome \in ConnectOutcomes, real_balance \in BrokerBalances :
          CONN_dashboard_stats(user, bot_balance, outcome, real_balance)
    \/ \E d \in Ticks : CONN_tick(d)

ConnSpec == CONN_init /\ [][ConnNext]_vars

\* ---------------------------------------------------------------------
\* Runner loop of a running bot: signal poll, placement, result, target
\* event, its sinks, forced trades and status queries.  The loop is in
\* services/trading_bot.py; the requests are the routes force_trade and
\* get_bot_status of routes.py.  Trades take no clock time here.
\* ---------------------------------------------------------------------

MaxRunMinutes == 3
MaxRunTrades == 4

RunStart == 8 * 3600 + 59 * 60

\* A morning session at 09:00 and an afternoon session one minute later.
RunSchedules ==
    {TradingConfig(mode, TRUE, <<9, 0>>, TRUE, <<9, 1>>, FALSE, NoStart) :
        mode \in {"auto", "manual"}}

CurrentSessionState ==
    SessionState(martingale_level, consecutive_losses, session_profit, session_trades)

\* Variables no step of the Runner or of a request touches.
runFrame == <<bot, config, initial_balance, evalLevel, trading_config, next_schedule,
              next_session_time, wait_seconds, sleep_time, starts, started, target_at,
              placed_after_stop, stop_requested_at, stop_delay, regVars, connVars, limVars, pauseVars, sessVars>>

\* Sessions whose start time is the instant t.
StartingAt(cfg, t, used) ==
    {name \in SessionNames :
        /\ EnabledIn(cfg, name) /\ StartOf(cfg, name) # NoStart
        /\ TimeOf(StartOf(cfg, name)) = t.tod
        /\ name \notin used}

StartsRunner_always(p) ==
    TRUE

\* A session start creates a Runner only while the bot waits for a session.
StartsRunner(p) ==
    p = "idle"

\* The clock advances by a minute; a session whose start time arrives is
\* entered when the bot waits for one.
RUN_clock ==
    /\ bot = "RUN"
    /\ Abs(now) < RunStart + MaxRunMinutes * 60
    /\ now' = At(Abs(now) + 60)
    /\ LET due == StartingAt(trading_config, now', consumed)
       IN  IF config.auto_mode /\ is_running /\ due # {}
           THEN IF StartsRunner(pc)
                THEN /\ current_session' \in due
                     /\ pc' = "loop"
                     /\ runners' = runners + 1
                     /\ step' = [kind |-> "session_start", actor |-> "runner",
                                 before |-> CurrentSessionState]
                ELSE /\ step' = [kind |-> "start_ignored", actor |-> "runner",
                                 before |-> CurrentSessionState]
                     /\ UNCHANGED <<current_session, pc, runners>>
           ELSE /\ step' = [kind |-> "tick", actor |-> "clock", before |-> CurrentSessionState]
                /\ UNCHANGED <<current_session, pc, runners>>
    /\ UNCHANGED <<current_balance, session_profit, session_trades, martingale_level,
                   consecutive_losses, result, should_continue, event, stop_event, history,
                   is_running, consumed, in_flight, forced, status, committed>>
    /\ UNCHANGED runFrame

AfterNoSignal_forces_trade ==
    /\ in_flight' = in_flight + 1
    /\ pc' = "in_flight"
    /\ UNCHANGED <<current_balance, session_profit, session_trades, martingale_level,
                   consecutive_losses>>

\* No signal: nothing is placed and the loop polls again.
AfterNoSignal ==
    /\ in_flight' = in_flight
    /\ pc' = "loop"
    /\ UNCHANGED <<current_balance, session_profit, session_trades, martingale_level,
                   consecutive_losses>>

\* The signal provider answers "no signal" or fails.
RUN_no_signal(kind) ==
    /\ bot = "RUN"
    /\ pc = "loop"
    /\ Check.continue
    /\ forced = "none"
    /\ AfterNoSignal
    /\ step' = [kind |-> kind, actor |-> "runner", before |-> CurrentSessionState]
    /\ UNCHANGED <<result, should_continue, event, stop_event, history, now, is_running,
                   current_session, consumed, runners, forced, status, committed>>
    /\ UNCHANGED runFrame

AfterFailedTrade_counts_loss ==
    /\ in_flight' = 0
    /\ pc' = "loop"
    /\ consecutive_losses' = consecutive_losses + 1
    /\ UNCHANGED <<current_balance, session_profit, session_trades, martingale_level,
                   is_running, runners>>

\* A trade that could not be placed, or whose result could not be read, is
\* dropped: the ledger is not touched and the loop goes on.
AfterFailedTrade ==
    /\ in_flight' = 0
    /\ pc' = "loop"
    /\ UNCHANGED <<current_balance, session_profit, session_trades, martingale_level,
                   consecutive_losses, is_running, runners>>

\* A loop iteration that finds no target reached places the forced trade
\* that waits, else the trade of a signal.
RUN_place_trade(ok) ==
    /\ bot = "RUN"
    /\ pc = "loop"
    /\ Check.continue
    /\ Len(history) < MaxRunTrades
    /\ forced' = "none"
    /\ IF ok
       THEN /\ in_flight' = in_flight + 1
            /\ pc' = "in_flight"
            /\ result' = [forced |-> forced # "none", outcome |-> "pending"]
            /\ step' = [kind |-> "placed", actor |-> "runner", forced |-> forced # "none",
                        event |-> Check.event, before |-> CurrentSessionState]
            /\ UNCHANGED <<current_balance, session_profit, session_trades, martingale_level,
                           consecutive_losses, is_running, runners>>
       ELSE /\ AfterFailedTrade
            /\ step' = [kind |-> "placement_failure", actor |-> "runner",
                        before |-> CurrentSessionState]
            /\ UNCHANGED result
    /\ UNCHANGED <<should_continue, event, stop_event, history, now, current_session,
                   consumed, status, committed>>
    /\ UNCHANGED runFrame

\* The trade in flight resolves.  A win or a loss is first booked on the
\* balance and the session profit; "unknown" is a result that cannot be read.
RUN_trade_result(outcome) ==
    /\ bot = "RUN"
    /\ pc = "in_flight"
    /\ IF outcome = "unknown"
       THEN /\ AfterFailedTrade
            /\ step' = [kind |-> "result_failure", actor |-> "runner",
                        before |-> CurrentSessionState]
            /\ UNCHANGED <<result, history>>
       ELSE /\ \E trade_amount \in MT_calculate_trade_amount(config, current_balance, martingale_level) :
               LET profit == IF outcome = "win" THEN (trade_amount * 85) \div 100
                             ELSE 0 - trade_amount
               IN  /\ current_balance' = current_balance + profit
                   /\ session_profit' = session_profit + profit
            /\ session_trades' = session_trades + 1
            /\ history' = Append(history, outcome)
            /\ result' = [result EXCEPT !.outcome = outcome]
            /\ in_flight' = 0
            /\ pc' = "updating"
            /\ step' = [kind |-> "result", actor |-> "runner", before |-> CurrentSessionState]
            /\ UNCHANGED <<martingale_level, consecutive_losses, is_running, runners>>
    /\ UNCHANGED <<should_continue, event, stop_event, now, current_session, consumed,
                   forced, status, committed>>
    /\ UNCHANGED runFrame

\* The update of a resolved trade completes: level and consecutive losses.
RUN_finish_update ==
    /\ bot = "RUN"
    /\ pc = "updating"
    /\ LET u == IF result.outcome = "win"
                THEN MT_win_update(martingale_level, consecutive_losses)
                ELSE MT_loss_update(config, martingale_level, consecutive_losses + 1)
       IN  /\ martingale_level' = u.level
           /\ consecutive_losses' = u.losses
           /\ committed' = SessionState(u.level, u.losses, session_profit, session_trades)
    /\ pc' = "loop"
    /\ step' = [kind |-> "updated", actor |-> "runner", forced |-> result.forced,
                outcome |-> result.outcome, before |-> committed]
    /\ UNCHANGED <<current_balance, session_profit, session_trades, result, should_continue,
                   event, stop_event, history, now, is_running, current_session, consumed,
                   runners, in_flight, forced, status>>
    /\ UNCHANGED runFrame

AfterIterationError_terminates ==
    /\ is_running' = FALSE
    /\ runners' = 0
    /\ pc' = "stopped"

\* An exception inside an iteration is caught and logged at the loop
\* boundary; the next iteration follows.
AfterIterationError ==
    /\ UNCHANGED <<is_running, runners>>
    /\ pc' = "loop"

RUN_iteration_error ==
    /\ bot = "RUN"
    /\ pc = "loop"
    /\ AfterIterationError
    /\ step' = [kind |-> "internal_error", actor |-> "runner", before |-> CurrentSessionState]
    /\ UNCHANGED <<current_balance, session_profit, session_trades, martingale_level,
                   consecutive_losses, result, should_continue, event, stop_event, history,
                   now, current_session, consumed, in_flight, forced, status, committed>>
    /\ UNCHANGED runFrame

TargetDecision_needs_sinks(auto, notify_ok, record_ok) ==
    IF notify_ok /\ record_ok THEN (IF auto THEN "pause" ELSE "stop") ELSE "abort"

\* What the loop does on a target event: pause in auto mode, stop in manual
\* mode, whatever became of the notification and of the session-target row.
TargetDecision(auto, notify_ok, record_ok) ==
    IF auto THEN "pause" ELSE "stop"

\* A loop iteration that finds a target reached: the event goes to the
\* notification sink and to the session-target table, then the session is
\* paused or the bot stopped.
RUN_target(notify_ok, record_ok) ==
    /\ bot = "RUN"
    /\ pc = "loop"
    /\ Check.event # "none"
    /\ event' = Check.event
    /\ should_continue' = FALSE
    /\ LET decision == TargetDecision(config.auto_mode, notify_ok, record_ok)
       IN  /\ step' = [kind |-> "target", actor |-> "runner", event |-> Check.event,
                       decision |-> decision, notify_ok |-> notify_ok,
                       record_ok |-> record_ok, before |-> CurrentSessionState]
           /\ IF decision = "pause"
              THEN /\ ResetSession
                   /\ committed' = SessionState(0, 0, 0, 0)
                   /\ current_session' = "none"
                   /\ consumed' = consumed \cup {current_session}
                   /\ pc' = "idle"
                   /\ UNCHANGED <<stop_event, is_running>>
              ELSE /\ stop_event' = (decision = "stop")
                   /\ is_running' = FALSE
                   /\ pc' = "stopped"
                   /\ UNCHANGED <<session_profit, session_trades, martingale_level,
                                  consecutive_losses, committed, current_session, consumed>>
    /\ runners' = 0
    /\ UNCHANGED <<current_balance, result, history, now, in_flight, forced, status>>
    /\ UNCHANGED runFrame

ForceAccepted_in_session(running, session, active) ==
    running /\ session = "manual" /\ active

\* POST /bot/force_trade: refused unless the bot runs and its current
\* session is "manual"; active (a scheduled session is running by the
\* clock) is not looked at.
ForceAccepted(running, session, active) ==
    running /\ session = "manual"

RUN_force_trade(direction) ==
    /\ bot = "RUN"
    /\ LET active == ActiveSessions(trading_config, now, {}) # {}
           accepted == ForceAccepted(is_running, current_session, active)
       IN  /\ forced' = IF accepted THEN direction ELSE forced
           /\ step' = [kind |-> "force_trade", actor |-> "request", accepted |-> accepted,
                       running |-> is_running, session |-> current_session,
                       active |-> active, before |-> CurrentSessionState]
    /\ UNCHANGED <<current_balance, session_profit, session_trades, martingale_level,
                   consecutive_losses, result, should_continue, event, stop_event, history,
                   now, is_running, current_session, pc, consumed, runners, in_flight,
                   status, committed>>
    /\ UNCHANGED runFrame

StatusReadable_unlocked(p) ==
    TRUE

\* The status query waits while the Runner is inside an update.
StatusReadable(p) ==
    p # "updating"

\* GET /bot/status
RUN_status ==
    /\ bot = "RUN"
    /\ StatusReadable(pc)
    /\ status' = [queried |-> TRUE, state |-> CurrentSessionState, committed |-> committed]
    /\ step' = [kind |-> "status", actor |-> "request", before |-> CurrentSessionState]
    /\ UNCHANGED <<current_balance, session_profit, session_trades, martingale_level,
                   consecutive_losses, result, should_continue, event, stop_event, history,
                   now, is_running, current_session, pc, consumed, runners, in_flight,
                   forced, committed>>
    /\ UNCHANGED runFrame

\* A bot that was started at 08:59: in manual mode its loop runs, in auto
\* mode it waits for the first session.
RUN_init ==
    /\ \E tc \in RunSchedules :
          /\ trading_config = tc
          /\ InitState("RUN", Config(CHOOSE st \in Stakings :
                                         ~st.use_balance_percentage /\ st.trade_amount = 10 * Scale,
                                     17, 100, TRUE, 1, 20, tc.operation_mode = "auto"),
                       1000 * Scale)
          /\ current_session = IF tc.operation_mode = "auto" THEN "none" ELSE "manual"
          /\ pc = IF tc.operation_mode = "auto" THEN "idle" ELSE "loop"
          /\ runners = IF tc.operation_mode = "auto" THEN 0 ELSE 1
    /\ now = [day |-> 0, tod |-> RunStart]
    /\ next_schedule = NotAsked
    /\ is_running = TRUE
    /\ next_session_time = NoTime
    /\ wait_seconds = 0
    /\ sleep_time = 0
    /\ consumed = {}
    /\ starts = 1
    /\ started = [at |-> NoTime]
    /\ target_at = NoTime
    /\ placed_after_stop = FALSE
    /\ stop_requested_at = NoTime
    /\ stop_delay = NoTime
    /\ NoRegistry
    /\ NoConnections
    /\ NoLimiter
    /\ NoPause
    /\ NoWindows
    /\ in_flight = 0
    /\ forced = "none"
    /\ step = NoStep
    /\ status = NoStatus
    /\ committed = SessionState(0, 0, 0, 0)

RunNext ==
    \/ RUN_clock
    \/ \E kind \in {"no_signal", "signal_failure"} : RUN_no_signal(kind)
    \/ \E ok \in BOOLEAN : RUN_place_trade(ok)
    \/ \E outcome \in {"win", "loss", "unknown"} : RUN_trade_result(outcome)
    \/ RUN_finish_update
    \/ RUN_iteration_error
    \/ \E notify_ok \in BOOLEAN, record_ok \in BOOLEAN : RUN_target(notify_ok, record_ok)
    \/ \E direction \in {"call", "put"} : RUN_force_trade(direction)
    \/ RUN_status

RunnerSpec == RUN_init /\ [][RunNext]_vars

\* ---------------------------------------------------------------------
\* Rate limiter (src/rate_limiter.py): one client, one limit type.
\* The clock is time.time() in seconds.
\* ---------------------------------------------------------------------

\* The limit of the model: 2 requests in a window of 60 seconds, then a
\* block of 300 seconds.
LimitRequests == 2
LimitWindow == 60
LimitBlock == 300

\* while attempts_queue and attempts_queue[0] < current_time - window: popleft()
RECURSIVE Purged(_, _)
Purged(queue, t) ==
    IF queue # << >> /\ Head(queue) < t - LimitWindow THEN Purged(Tail(queue), t) ELSE queue

\* RateLimiter.is_blocked
is_blocked(until, t) == until # 0 /\ t < until

\* the entry is_blocked leaves behind: deleted once it expired
BlockAfterCheck(until, t) == IF until # 0 /\ ~(t < until) THEN 0 ELSE until

\* RateLimiter.add_attempt: the queue it leaves and whether it returns True
add_attempt(queue, t) ==
    LET q == Append(Purged(queue, t), t)
    IN  [queue |-> q, allowed |-> ~(Len(q) > LimitRequests)]

\* What can go wrong in one request: nothing, an exception of the limiter
\* before the handler is called, an exception while the rate-limit headers
\* are written to the handler's response.
LimiterFaults == {"none", "before", "headers"}

\* One request through @limit_requests.  The whole wrapper is one try block
\* whose except clause calls the handler.
LIM_request(fault, handler_raises) ==
    /\ bot = "LIM"
    /\ IF fault = "before"
       THEN /\ served' = [status |-> IF handler_raises THEN 500 ELSE 200, calls |-> 1,
                          fault |-> fault, handler_raises |-> handler_raises]
            /\ UNCHANGED <<attempts, blocked_until>>
       ELSE IF is_blocked(blocked_until, wall)
       THEN /\ served' = [status |-> 429, calls |-> 0, fault |-> fault,
                          handler_raises |-> handler_raises]
            /\ UNCHANGED <<attempts, blocked_until>>
       ELSE LET a == add_attempt(attempts, wall)
            IN  /\ attempts' = a.queue
                /\ IF ~a.allowed
                   THEN /\ blocked_until' = wall + LimitBlock
                        /\ served' = [status |-> 429, calls |-> 0, fault |-> fault,
                                      handler_raises |-> handler_raises]
                   ELSE /\ blocked_until' = BlockAfterCheck(blocked_until, wall)
                        /\ served' = [status |-> IF handler_raises THEN 500 ELSE 200,
                                      calls |-> IF handler_raises \/ fault = "headers"
                                                THEN 2 ELSE 1,
                                      fault |-> fault, handler_raises |-> handler_raises]
    /\ UNCHANGED <<connection_failures, balance_cache, wall, streak, requests, ticks, response>>
    /\ UNCHANGED <<ledgerVars, clockVars, orchVars, regVars, runVars, pauseVars, sessVars>>

\* time.time() advances between two requests
LIM_tick(d) ==
    /\ bot = "LIM"
    /\ ticks < MaxTicks
    /\ ticks' = ticks + 1
    /\ wall' = wall + d
    /\ UNCHANGED <<connection_failures, balance_cache, streak, requests, response>>
    /\ UNCHANGED <<ledgerVars, clockVars, orchVars, regVars, runVars, limVars, pauseVars, sessVars>>

LimiterTicks == {1, 59, 61, 300}

LIM_init ==
    /\ InitState("LIM", Config(CHOOSE st \in Stakings : st.use_balance_percentage,
                               50, 100, TRUE, 3, 20, TRUE), 1000 * Scale)
    /\ NoClock
    /\ NoThread
    /\ NoRegistry
    /\ NoRest

LimNext ==
    \/ \E fault \in LimiterFaults, handler_raises \in BOOLEAN : LIM_request(fault, handler_raises)
    \/ \E d \in LimiterTicks : LIM_tick(d)

LimiterSpec == LIM_init /\ [][LimNext]_vars

\* ---------------------------------------------------------------------
\* MockTradingBot of test_pause_system_fix.py: what the bot does when a
\* target is reached, for every setting of the legacy flags.
\* ---------------------------------------------------------------------

PF_decision_with_restart(auto_mode, auto_restart, continuous_mode) ==
    IF auto_mode
    THEN (IF auto_restart /\ continuous_mode THEN "continue" ELSE "pause")
    ELSE "stop"

\* if self.config.auto_mode: self._pause_until_next_session()
\* else: self._schedule_stop()
PF_decision(auto_mode, auto_restart, continuous_mode) ==
    IF auto_mode THEN "pause" ELSE "stop"

PF_act ==
    LET decision == PF_decision(config.auto_mode, flags.auto_restart, flags.continuous_mode)
    IN  /\ paused' = (paused \/ decision = "pause")
        /\ stopped' = (stopped \/ decision = "stop")
        /\ result' = (paused' \/ stopped')

PF_simulate_take_profit_reached ==
    /\ bot = "PF"
    /\ ~paused /\ ~stopped
    /\ LET target_value == PercentOf(initial_balance, config.take_profit)
       IN  /\ session_profit' = target_value + 1 * Scale
           /\ session_profit' >= target_value
    /\ event' = "take_profit_reached"
    /\ PF_act
    /\ UNCHANGED <<bot, config, initial_balance, current_balance, session_trades,
                   martingale_level, consecutive_losses, should_continue, evalLevel,
                   stop_event, history, flags>>
    /\ UNCHANGED <<clockVars, orchVars, regVars, connVars, runVars, limVars, sessVars>>

PF_simulate_stop_loss_reached ==
    /\ bot = "PF"
    /\ ~paused /\ ~stopped
    /\ session_profit' = 0 - 100 * Scale
    /\ martingale_level' = 0
    /\ event' = "stop_loss_reached"
    /\ PF_act
    /\ UNCHANGED <<bot, config, initial_balance, current_balance, session_trades,
                   consecutive_losses, should_continue, evalLevel, stop_event, history, flags>>
    /\ UNCHANGED <<clockVars, orchVars, regVars, connVars, runVars, limVars, sessVars>>

\* bot = MockTradingBot(config)
PF_new_bot ==
    /\ bot = "PF"
    /\ paused \/ stopped
    /\ session_profit' = 0
    /\ martingale_level' = 0
    /\ paused' = FALSE
    /\ stopped' = FALSE
    /\ event' = "none"
    /\ result' = "none"
    /\ UNCHANGED <<bot, config, initial_balance, current_balance, session_trades,
                   consecutive_losses, should_continue, evalLevel, stop_event, history, flags>>
    /\ UNCHANGED <<clockVars, orchVars, regVars, connVars, runVars, limVars, sessVars>>

PF_init ==
    /\ \E st \in Stakings, tp \in TakeProfits, sl \in StopLosses, mx \in MaxLevels,
          auto \in BOOLEAN :
          InitState("PF", Config(st, tp, sl, TRUE, mx, 22, auto), 1000 * Scale)
    /\ \E ar \in BOOLEAN, cm \in BOOLEAN : flags = Flags(ar, cm)
    /\ paused = FALSE
    /\ stopped = FALSE
    /\ NoClock
    /\ NoThread
    /\ NoRegistry
    /\ NoConnections
    /\ NoRunner
    /\ NoLimiter
    /\ NoWindows

PauseNext ==
    \/ PF_simulate_take_profit_reached
    \/ PF_simulate_stop_loss_reached
    \/ PF_new_bot

PauseSpec == PF_init /\ [][PauseNext]_vars

\* ---------------------------------------------------------------------
\* _is_in_session_time of the MockTradingBot of test_simple_automatic_mode.py:
\* the session check with a start and an end time.
\* ---------------------------------------------------------------------

HM(hour, minute) == hour * 3600 + minute * 60

\* if start_time <= end_time: return start_time <= now <= end_time
\* else: return now >= start_time or now <= end_time
in_window(start_time, end_time, t) ==
    IF start_time <= end_time
    THEN start_time <= t /\ t <= end_time
    ELSE t >= start_time \/ t <= end_time

SessionTypes == {"morning", "afternoon", "night", "weekend"}

is_in_session_time(cfg, session_type, t) ==
    IF session_type \in {"morning", "afternoon", "night"}
    THEN in_window(cfg[session_type][1], cfg[session_type][2], t)
    ELSE FALSE

\* Session windows: the night session of 19:00-22:00, or one that crosses
\* midnight.
WindowConfigs ==
    {[morning |-> m, afternoon |-> <<HM(14, 0), HM(17, 0)>>, night |-> n] :
        m \in {<<HM(9, 0), HM(12, 0)>>, <<HM(18, 30), HM(19, 0)>>},
        n \in {<<HM(19, 0), HM(22, 0)>>, <<HM(22, 0), HM(2, 0)>>}}

\* Instants of the day, to the second.
ClockInstants ==
    {HM(1, 0), HM(18, 30), HM(19, 0) - 1, HM(19, 0), HM(20, 30), HM(22, 0) - 1, HM(22, 0),
     HM(22, 0) + 1, HM(23, 0)}

\* datetime.now() is patched or the clock moves.
SESS_clock(t) ==
    /\ windows # << >>
    /\ t # clock
    /\ clock' = t
    /\ UNCHANGED <<windows, in_session>>
    /\ UNCHANGED <<ledgerVars, clockVars, orchVars, regVars, connVars, runVars, limVars, pauseVars>>

\* bot._is_in_session_time(session_type)
SESS_is_in_session_time(session_type) ==
    /\ windows # << >>
    /\ in_session' = [session_type |-> session_type, at |-> clock,
                      answer |-> is_in_session_time(windows, session_type, clock)]
    /\ UNCHANGED <<windows, clock>>
    /\ UNCHANGED <<ledgerVars, clockVars, orchVars, regVars, connVars, runVars, limVars, pauseVars>>

SESS_init ==
    /\ InitState("SIMPLE", Config(CHOOSE st \in Stakings : st.use_balance_percentage,
                                  50, 100, TRUE, 3, 20, TRUE), 1000 * Scale)
    /\ windows \in WindowConfigs
    /\ clock \in ClockInstants
    /\ in_session = NotChecked
    /\ NoClock
    /\ NoThread
    /\ NoRegistry
    /\ NoConnections
    /\ NoRunner
    /\ NoLimiter
    /\ NoPause

SessNext ==
    \/ \E t \in ClockInstants : SESS_clock(t)
    \/ \E session_type \in SessionTypes : SESS_is_in_session_time(session_type)

SessionSpec == SESS_init /\ [][SessNext]_vars

Init == (CST_init \/ MT_init \/ FIXED_init \/ SIMPLE_init) /\ NoClock /\ NoThread /\ NoRegistry /\ NoRest

Next ==
    \/ \E win \in BOOLEAN : CST_simulate_trade_result(win)
    \/ CST_reset
    \/ \E win \in BOOLEAN : MT_simulate_trade_result(win)
    \/ \E win \in BOOLEAN : FIXED_trade(win)
    \/ \E profit \in SimpleProfits, level \in SimpleLevels : SIMPLE_set_state(profit, level)
    \/ SIMPLE_check
    \/ SIMPLE_reset_mock

Spec == Init /\ [][Next]_vars

(* ------------------------------- claims -------------------------------- *)

Last == history[Len(history)]
Ledgers == {"CST", "MT"}
Traded == bot \in {"CST", "MT", "FIXED"} /\ history # <<>>
Exhausting(o) == ~o.win /\ (~config.martingale_enabled \/ o.level = config.max_martingale_levels)

\* C1: the targets (take profit, stop) are compared only when the martingale
\* level is 0; a call made while the level is above 0 compares nothing, emits
\* no event and lets the runner continue, whatever session_profit is.
C1_EvaluatorOnlyAtLevelZero ==
    /\ evalLevel >= 0 => (evalLevel = 0 /\ martingale_level = 0)
    /\ (martingale_level > 0 /\ evalLevel # NotCalled)
          => (evalLevel = NoEval /\ should_continue /\ ~Ended /\ event = "none")

\* The runner is in a martingale progression, the session loss already
\* exceeds the stop-loss threshold, and it carries on without evaluating.
C1_Witness ==
    /\ bot = "FIXED" /\ Len(history) >= 2
    /\ martingale_level > 0 /\ evalLevel = NoEval /\ should_continue
    /\ stop_loss_reached(session_profit, initial_balance, config.stop_loss)

\* C2: a loss with martingale enabled and level < max raises the level by
\* exactly 1, raises consecutive_losses by 1 and reports continue_martingale.
C2_OnLossContinuing ==
    (bot \in Ledgers /\ history # <<>> /\ ~Last.win
        /\ config.martingale_enabled /\ Last.level < config.max_martingale_levels)
    => /\ martingale_level = Last.level + 1
       /\ consecutive_losses = Last.losses + 1
       /\ Last.result = "continue_martingale"
       /\ result = "continue_martingale"

C2_Witness ==
    /\ bot \in Ledgers /\ history # <<>> /\ ~Last.win
    /\ Last.level = 1 /\ martingale_level = 2 /\ consecutive_losses = 2
    /\ result = "continue_martingale"

\* C3: a loss at level = max, or any loss with martingale disabled, leaves the
\* level at 0 (and, where the ledger reports the exhaustion, reports it).
C3_OnLossExhausted ==
    (Traded /\ Exhausting(Last))
    => /\ martingale_level = 0
       /\ bot = "CST" => result = "stop_loss_reached"

\* C4: a win leaves level = 0 and consecutive_losses = 0, whatever they were.
C4_OnWinResets ==
    (Traded /\ Last.win) => (martingale_level = 0 /\ consecutive_losses = 0)

\* A win placed at level 0 with consecutive losses still counted (the previous
\* cycle was exhausted without reaching the stop-loss percentage).
C4_Witness ==
    /\ bot = "MT" /\ Len(history) >= 2 /\ Last.win
    /\ Last.level = 0 /\ Last.losses > 0
    /\ martingale_level = 0 /\ consecutive_losses = 0

\* C5: the martingale level stays within 0..max_martingale_levels.
C5_LevelInRange ==
    martingale_level \in 0..config.max_martingale_levels

\* The level is back at 0 after having reached the maximum of 3 in this session.
C5_Witness ==
    /\ Traded /\ config.max_martingale_levels = 3
    /\ \E i \in 1..Len(history) : history[i].level = 3
    /\ martingale_level = 0

\* The balance a trade of the session was staked from.
BalanceAt(i) == initial_balance + (IF i = 1 THEN 0 ELSE history[i - 1].profit)

\* a cents is a nearest cent of (x / Scale) * (k / 100) * (mult / 10)^level dollars.
NearestCent(a, x, k, mult, level) ==
    LET M  == k * Pow(mult, level)
        D  == Pow(10, level)
        t  == (x % Scale) * M
        H  == (x \div Scale) * M + (t \div Scale)
        e  == H - a * D
        df == e * Scale + (t % Scale)
    IN  /\ e \in (0 - D)..D
        /\ 2 * (IF df < 0 THEN 0 - df ELSE df) <= D * Scale

\* C6: the stake of every trade is base * multiplier^level rounded to cents,
\* the base being the fixed amount or the percentage of the live balance; at
\* level 0 a fixed amount is staked as it is.
C6_StakeIsGeometric ==
    (bot \in Ledgers /\ history # <<>>)
    => LET o == Last
       IN  /\ o.amount % Cent = 0
           /\ IF config.use_balance_percentage
              THEN NearestCent(o.amount \div Cent, BalanceAt(Len(history)),
                               config.balance_percentage, config.martingale_multiplier, o.level)
              ELSE NearestCent(o.amount \div Cent, config.trade_amount, 100,
                               config.martingale_multiplier, o.level)
           /\ (o.level = 0 /\ ~config.use_balance_percentage) => o.amount = config.trade_amount

\* A level-3 stake taken from a balance that has moved since the session began.
C6_Witness ==
    /\ bot \in Ledgers /\ history # <<>> /\ config.use_balance_percentage
    /\ Last.level = 3 /\ BalanceAt(Len(history)) # initial_balance
    /\ Last.amount % Scale # 0

\* C7: with 3 levels, multiplier 2.2 and a base stake of $20, four consecutive
\* losses from level 0 are staked $20, $44, $96.80, $212.96; the first three
\* report continue_martingale and the fourth stop_loss_reached.
C7_FourLosses ==
    (/\ bot = "CST" /\ ~config.use_balance_percentage /\ config.trade_amount = 20 * Scale
     /\ config.martingale_multiplier = 22 /\ config.martingale_enabled
     /\ config.max_martingale_levels = 3)
    => \A i \in 1..Len(history) :
          (/\ i + 3 <= Len(history)
           /\ history[i].level = 0
           /\ \A j \in i..(i + 3) : ~history[j].win)
          => /\ <<history[i].amount, history[i + 1].amount, history[i + 2].amount, history[i + 3].amount>>
                  = <<20 * Scale, 44 * Scale, 9680 * Cent, 21296 * Cent>>
             /\ \A j \in i..(i + 2) : history[j].result = "continue_martingale"
             /\ history[i + 3].result = "stop_loss_reached"

C7_Witness ==
    /\ bot = "CST" /\ ~config.use_balance_percentage /\ config.trade_amount = 20 * Scale
    /\ config.martingale_enabled /\ config.max_martingale_levels = 3
    /\ Len(history) >= 5 /\ history[Len(history) - 3].level = 0
    /\ \A j \in (Len(history) - 3)..Len(history) : ~history[j].win
    /\ result = "stop_loss_reached"

Crossed(i) == history[i].profit >= (initial_balance \div 1000) * config.take_profit

\* C9: take_profit_reached is emitted by the first trade of the session after
\* which session_profit >= the threshold, and by no other trade.
C9_TakeProfitOnFirstCrossing ==
    Traded
    => \A i \in 1..Len(history) :
          (history[i].result = "take_profit_reached")
             <=> (Crossed(i) /\ \A j \in 1..(i - 1) : ~Crossed(j))

\* The threshold is crossed by the third trade or later, after a loss.
C9_Witness ==
    /\ Traded /\ Len(history) >= 3 /\ Last.result = "take_profit_reached"
    /\ \E j \in 1..(Len(history) - 1) : ~history[j].win

SameDecisionWith(sl) ==
    LET cfg == [config EXCEPT !.stop_loss = sl]
    IN  /\ (bot = "CST" /\ history # <<>> /\ ~Last.win)
            => CST_loss_update(cfg, Last.level, Last.losses + 1).result = result
        /\ (bot = "MT" /\ history # <<>> /\ Exhausting(Last))
            => (result = "stop_loss_reached" <=> stop_loss_reached(session_profit, initial_balance, sl))
        /\ (bot = "FIXED" /\ history # <<>>)
            => FIXED_should_continue_trading(cfg, martingale_level, session_profit, initial_balance,
                                             current_balance).continue = should_continue
        /\ (bot = "SIMPLE" /\ evalLevel # NotCalled)
            => SIMPLE_should_continue_trading(cfg, martingale_level, session_profit, initial_balance,
                                              current_balance, stop_event).continue = should_continue

\* C11: the stop decision does not depend on the configured stop-loss
\* percentage: with the same trade outcomes, every other percentage leads to
\* the same decision to carry on or to stop.
C11_StopIgnoresPercentage ==
    \A sl \in StopLosses : SameDecisionWith(sl)

(* -------------------------- session clock claims ------------------------ *)

EnabledStarts == {s.start : s \in {[enabled |-> trading_config.morning_enabled, start |-> trading_config.morning_start],
                                   [enabled |-> trading_config.afternoon_enabled, start |-> trading_config.afternoon_start],
                                   [enabled |-> trading_config.night_enabled, start |-> trading_config.night_start]}
                             \cap [enabled : {TRUE}, start : Starts \ {NoStart}]}
LaterToday == {hm \in EnabledStarts : TimeOf(hm) > now.tod}
Earliest(S) == CHOOSE hm \in S : \A other \in S : TimeOf(hm) <= TimeOf(other)
Asked == bot = "CLOCK" /\ next_schedule # NotAsked

\* The instant a returned schedule names, as <<day, second of the day>>.
Timestamp(r) == IF r.label = "Hoje" THEN <<now.day, TimeOf(r.start)>> ELSE <<now.day + 1, TimeOf(r.start)>>

NextSessionStartIsEarliest ==
    /\ LaterToday # {} => next_schedule = [label |-> "Hoje", start |-> Earliest(LaterToday)]
    /\ (LaterToday = {} /\ EnabledStarts # {})
           => next_schedule = [label |-> "Amanhã", start |-> Earliest(EnabledStarts)]
    /\ next_schedule # NotScheduled
           => /\ next_schedule.start \in EnabledStarts
              /\ \/ Timestamp(next_schedule)[1] > now.day
                 \/ Timestamp(next_schedule)[2] > now.tod

OrchState ==
    IF pc = "stopped" \/ stop_event \/ ~is_running THEN "Stopped"
    ELSE IF current_session = "none" THEN "WaitingForSession"
    ELSE "Running"
AfterTarget == bot = "ORCH" /\ event # "none"
SessionReset ==
    session_profit = 0 /\ session_trades = 0 /\ martingale_level = 0 /\ consecutive_losses = 0

C13_ManualTargetStops ==
    (AfterTarget /\ ~config.auto_mode)
        => /\ OrchState = "Stopped"
           /\ pc = "stopped"

C13_Witness ==
    /\ AfterTarget /\ ~config.auto_mode
    /\ event = "take_profit_reached"
    /\ pc = "stopped"
    /\ starts = 1

Enabled(name) == EnabledIn(trading_config, name) /\ StartOf(trading_config, name) # NoStart
StartSecond(name) == TimeOf(StartOf(trading_config, name))

C19_StopSeenWithinAMinute ==
    (bot = "ORCH" /\ stop_delay # NoTime) => stop_delay <= 60

(* ----------------------------- registry claims -------------------------- *)

\* C20: at no time do two bot instances of one user run together: a start
\* request served while an instance runs begins the new instance only after
\* the previous one is cancelled and joined, also when stopping it reports an
\* error.
C20_OneInstancePerUser ==
    bot = "REG" => \A user \in Users : Cardinality({b \in alive : b.user = user}) <= 1

\* ---------------------------------------------------------------------
\* Claims about the broker connection tracker (ConnSpec)
\* A run of failures is the number of connection attempts of a user that
\* failed since the user's last success and since the end of the user's
\* last cooldown window (streak).
\* ---------------------------------------------------------------------

Answered == response # NoResponse

InCooldown ==
    /\ Answered
    /\ response.streak >= MAX_FAILURES
    /\ response.elapsed < FAILURE_COOLDOWN

C23_SuppressedOnlyAfterThree ==
    (Answered /\ response.suppressed) => response.streak >= MAX_FAILURES

\* ---------------------------------------------------------------------
\* Claims about the Runner loop (RunnerSpec)
\* ---------------------------------------------------------------------

Did(kinds) == step # NoStep /\ step.kind \in kinds

C24_NoSignalKeepsLedger ==
    Did({"no_signal", "signal_failure"}) =>
        /\ CurrentSessionState = step.before
        /\ in_flight = 0
        /\ pc = "loop" /\ runners = 1 /\ is_running

C24_Witness ==
    /\ Did({"signal_failure"})
    /\ martingale_level = 1
    /\ session_profit < 0

\* C25: after a placement failure or a result that cannot be read, level,
\* consecutive losses and session profit are what they were before it, and
\* the bot is still running with its Runner in the loop.
C25_FailedTradeKeepsLedger ==
    Did({"placement_failure", "result_failure"}) =>
        /\ CurrentSessionState = step.before
        /\ pc = "loop" /\ runners = 1 /\ is_running

C25_Witness ==
    /\ Did({"result_failure"})
    /\ martingale_level = 1
    /\ consecutive_losses = 1
    /\ in_flight = 0

\* C26: after an unexpected error inside an iteration the bot is running and
\* its Runner is at the head of the loop for the next iteration.
C26_ErrorKeepsRunning ==
    Did({"internal_error"}) => (is_running /\ runners = 1 /\ pc = "loop")

C26_Witness ==
    /\ Did({"internal_error"})
    /\ session_trades >= 1
    /\ current_session = "morning"

Alive(i) == \E b \in alive : b.id = i

C40_HandlerCalledAtMostOnce ==
    served # NotServed => served.calls <= 1

\* ---------------------------------------------------------------------
\* Claims about the pause on a target (PauseSpec)
\* ---------------------------------------------------------------------

TargetHandled == bot = "PF" /\ event \in {"take_profit_reached", "stop_loss_reached"}

ExternalStop ==
    /\ stop_requested_at' # stop_requested_at
    /\ OrchState' = "Stopped"

DiagramTransitions ==
    {<<"Stopped", "WaitingForSession">>, <<"WaitingForSession", "Running">>,
     <<"Running", "WaitingForSession">>, <<"Running", "Stopped">>}

PausedOnTarget ==
    /\ bot = "ORCH" /\ config.auto_mode
    /\ \E name \in SessionNames : Enabled(name)
    /\ target_at # NoTime /\ event # "none"
    /\ pc \in {"wait", "sleeping"}
    /\ stop_requested_at = NoTime
    /\ next_session_time <= Horizon

ResumedAtNextStart ==
    /\ OrchState = "Running" /\ pc = "loop"
    /\ next_session_time # NoTime
    /\ Abs(now) = next_session_time

RealizedPnL(o) == IF o.win THEN (o.amount * 85) \div 100 ELSE 0 - o.amount

RECURSIVE SumPnL(_)
SumPnL(trades) ==
    IF trades = << >> THEN 0
    ELSE SumPnL(SubSeq(trades, 1, Len(trades) - 1)) + RealizedPnL(trades[Len(trades)])

\* C35: session_profit is the sum of the realized profit/loss of the trades
\* completed since the session began or was reset: 0 with no trade, and
\* after each trade the value before it plus that trade's profit/loss.
C35_ProfitIsSumOfTrades ==
    bot \in Ledgers \cup {"FIXED"} =>
        /\ session_profit = SumPnL(history)
        /\ session_trades = Len(history)
        /\ \A i \in 1..Len(history) :
              history[i].profit = (IF i = 1 THEN 0 ELSE history[i - 1].profit)
                                  + RealizedPnL(history[i])

\* A session of the tester with a win and then a loss.
C35_Witness ==
    /\ bot = "CST"
    /\ Len(history) = 2
    /\ history[1].win /\ ~history[2].win
    /\ session_profit = RealizedPnL(history[1]) + RealizedPnL(history[2])
    /\ session_profit < 0

\* Number of losses at the end of the trades, counted back to the most
\* recent win or exhaustion.
RECURSIVE LossesSinceReset(_)
LossesSinceReset(trades) ==
    IF trades = << >> THEN 0
    ELSE LET o == trades[Len(trades)]
         IN  IF o.win \/ Exhausting(o) THEN 0
             ELSE 1 + LossesSinceReset(SubSeq(trades, 1, Len(trades) - 1))

FullyLostCycle ==
    /\ bot = "CST"
    /\ config.use_balance_percentage /\ config.balance_percentage = 2
    /\ config.martingale_enabled /\ config.max_martingale_levels = 3
    /\ config.martingale_multiplier = 22
    /\ initial_balance = 1000 * Scale
    /\ Len(history) = 4
    /\ \A i \in 1..4 : ~history[i].win /\ history[i].level = i - 1

\* C37: with 2% of a $1000 balance, multiplier 2.2 and three martingale
\* levels, a fully lost cycle loses $373.76 in total.
C37_LostCycleLoses37376 ==
    FullyLostCycle =>
        /\ session_profit = 0 - 37376 * Cent
        /\ current_balance = initial_balance - 37376 * Cent

\* ---------------------------------------------------------------------
\* Claims about the session check with an end time (SessionSpec)
\* ---------------------------------------------------------------------

NightCheck(t) ==
    /\ windows # << >> /\ windows.night = <<HM(19, 0), HM(22, 0)>>
    /\ in_session.session_type = "night"
    /\ in_session.at = t

\* C38: for a night session of 19:00 to 22:00 the check for 'night' is
\* true at 19:00 and 20:30 and false at 18:30, 22:00 and 23:00; the session
\* is active from its start up to but not including its end.
C38_NightActiveUntilEndExclusive ==
    /\ (NightCheck(HM(19, 0)) \/ NightCheck(HM(20, 30))) => in_session.answer
    /\ (NightCheck(HM(18, 30)) \/ NightCheck(HM(22, 0)) \/ NightCheck(HM(23, 0)))
           => ~in_session.answer
    /\ \A t \in ClockInstants :
          NightCheck(t) => (in_session.answer <=> (HM(19, 0) <= t /\ t < HM(22, 0)))

\* ---------------------------------------------------------------------
\* Claims about the registry after stop and start requests (RegSpec)
\* ---------------------------------------------------------------------

====
